-------------------------------- MODULE MCSend --------------------------------
(***************************************************************************)
(* Uploads, contents and plans for TLC.  Content is a sequence of numbers; *)
(* the bytes of a server-encrypted upload are 50 and up, and one longer    *)
(* than what they decrypt to.                                              *)
(***************************************************************************)
EXTENDS Send, TLC

MCVersions == <<<<1, 2, 3>>, <<4, 5, 6>>>>
MCPutNames == {<<20>>, <<21, 22>>}
\* Ranges within, up to and past the end of an upload of three or four bytes, and
\* at the ends of a word.
MCHeaders ==
    {NoRange} \cup [start : {0, 1, 3, 5, Word - 1}, finish : {0, 2, Word - 2, Word - 1, OpenEnd}]

Plain(token, name, content) ==
    [token |-> token, name |-> name, bytes |-> content, plain |-> content,
     encrypted |-> FALSE, key |-> Nil]
Sealing(token, name, content) ==
    [token |-> token, name |-> name, plain |-> content, encrypted |-> FALSE, key |-> token,
     bytes |-> Ciphertext([key |-> token, prefix |-> token, name |-> name], content)]
PasswordProtected(token, name, content, bytes) ==
    [token |-> token, name |-> name, bytes |-> bytes, plain |-> content,
     encrypted |-> TRUE, key |-> Nil]

\* Two encrypted links with one file name, a plain upload and one that the server
\* has encrypted.
MCOffers ==
    11 :> Sealing(11, <<20>>, <<1, 2, 3>>)
    @@ -1 :> Sealing(12, <<20>>, <<4, 5, 6, 7>>)
    @@ 13 :> Plain(13, <<21>>, <<1, 2, 3>>)
    @@ 14 :> PasswordProtected(14, <<22>>, <<1, 2, 3>>, <<50, 51, 52, 53>>)

\* Two plain links with one file name.
MixedOffers == 11 :> Plain(11, <<20>>, <<1, 2, 3>>) @@ 12 :> Plain(12, <<20>>, <<4, 5, 6>>)

NoPlan == [offers |-> {}, backends |-> {"local"}, keys |-> {"none"}, gets |-> 0, puts |-> 0,
           edits |-> 0, probes |-> 0, runs |-> 0, mishaps |-> 0]
Anywhere == [NoPlan EXCEPT !.offers = DOMAIN Offers, !.backends = {"local", "s3", "plain"}]
MCPlans ==
    {[Anywhere EXCEPT !.gets = 3],
     [Anywhere EXCEPT !.offers = {13, 14}, !.probes = 2],
     [NoPlan EXCEPT !.offers = {-1}, !.gets = 1, !.keys = {Shared}, !.runs = 2],
     [NoPlan EXCEPT !.puts = 3, !.edits = 1],
     [NoPlan EXCEPT !.keys = {"none", Shared}, !.runs = 3, !.mishaps = 1]}
GetPlans == {[NoPlan EXCEPT !.offers = DOMAIN Offers, !.gets = 2]}

MCElsewhere == {-1}
===============================================================================
