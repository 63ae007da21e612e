------------------------------ MODULE EdgeProofs ------------------------------
(***************************************************************************)
(* Proofs about Edge, for any requests, callers, configurations, bursts    *)
(* and idle times, and any number of stops and restarts: an address gets   *)
(* no more than its burst and its rate (plus the time by which requests    *)
(* were late), whatever is evicted meanwhile; nothing unscanned is stored  *)
(* and no spool file outlives its request; and the IP filter, built from   *)
(* lists of any length, decides what they mean.                            *)
(*                                                                         *)
(* Why an invariant is needed: the meter is compared with what the bucket  *)
(* would hold now, not with what it holds, and a bucket may only be thrown *)
(* away if it is full, which rests on its stamp.  A late request can set   *)
(* the stamp back, so the bound has to leave room for the distance between *)
(* the stamp and the time of every request that holds the bucket.          *)
(*                                                                         *)
(* The filter is a fold over each list.  Its value is followed entry by    *)
(* entry, by induction over a set of indices, and each entry replaces what *)
(* was said of it before, so that the order within a list does not matter. *)
(***************************************************************************)
EXTENDS Edge, FiniteSetTheorems, TLAPS

-------------------------------------------------------------------------------
(* Folds *)

\* Induction on the natural numbers, over a set that holds what is to be shown.
LEMMA Induct ==
    ASSUME NEW S, 0 \in S, \A n \in Nat : n \in S => n + 1 \in S
    PROVE  \A n \in Nat : n \in S
<1>. SUFFICES ASSUME Nat \ S # {} PROVE FALSE
  OBVIOUS
<1>1. PICK x \in Nat \ S : \A y \in Nat \ S : ~ (<<y, x>> \in OpToRel(<, Nat))
  <2>1. Nat \ S \subseteq Nat
    OBVIOUS
  <2>. QED BY <2>1, NatLessThanWellFounded, WFMin
<1>2. x \in Nat /\ x # 0 /\ x - 1 \in Nat /\ x - 1 < x
  OBVIOUS
<1>3. <<x - 1, x>> \in OpToRel(<, Nat)
  BY <1>2 DEF OpToRel
<1>4. x - 1 \in S
  BY <1>1, <1>2, <1>3
<1>5. (x - 1) + 1 \in S
  BY <1>2, <1>4
<1>. QED BY <1>2, <1>5

LEMMA LastIsMax ==
    ASSUME NEW n \in Nat, NEW s \in SUBSET (1..n), n \in s
    PROVE  Max(s) = n
<1>1. \A y \in s : n >= y
  OBVIOUS
<1>2. \A x \in s : (\A y \in s : x >= y) => x = n
  <2>. SUFFICES ASSUME NEW x \in s, \A y \in s : x >= y PROVE x = n
    OBVIOUS
  <2>1. x >= n /\ n >= x
    BY <1>1
  <2>2. x \in Int
    OBVIOUS
  <2>. QED BY <2>1, <2>2
<1>. QED BY <1>1, <1>2 DEF Max

\* ToggleAll is a fold, which is defined by recursion on sets of indices, toggles the entries
\* of a list one after the other.
LEMMA OneByOne ==
    ASSUME NEW seq, NEW m \in Nat, DOMAIN seq = 1..m, NEW base, NEW allowed
    PROVE  \E f : /\ f[0] = base
                  /\ f[m] = ToggleAll(base, seq, allowed)
                  /\ \A k \in 0..m - 1 : f[k + 1] = Toggle(f[k], seq[k + 1], allowed)
<1>. DEFINE Entry(g, s) == IF s = {} THEN base
                           ELSE Toggle(g[s \ {Max(s)}], seq[Max(s)], allowed)
            Defined == {n \in Nat : \E g : g = [s \in SUBSET (1..n) |-> Entry(g, s)]}
<1>1. 0 \in Defined
  <2>. DEFINE g == [s \in SUBSET (1..0) |-> base]
  <2>1. \A s \in SUBSET (1..0) : s = {}
    OBVIOUS
  <2>2. g = [s \in SUBSET (1..0) |-> Entry(g, s)]
    BY <2>1
  <2>. QED BY <2>2
<1>2. ASSUME NEW n \in Nat, n \in Defined PROVE n + 1 \in Defined
  <2>1. PICK g : g = [s \in SUBSET (1..n) |-> Entry(g, s)]
    BY <1>2
  <2>. DEFINE h == [s \in SUBSET (1..n + 1) |->
                       IF n + 1 \in s
                       THEN Toggle(g[s \ {n + 1}], seq[n + 1], allowed)
                       ELSE g[s]]
  <2>2. \A s \in SUBSET (1..n) : s \in SUBSET (1..n + 1) /\ n + 1 \notin s /\ h[s] = g[s]
    OBVIOUS
  <2>3. ASSUME NEW s \in SUBSET (1..n + 1) PROVE h[s] = Entry(h, s)
    <3>1. CASE n + 1 \in s
      <4>1. Max(s) = n + 1 /\ s # {}
        BY <3>1, LastIsMax
      <4>2. s \ {n + 1} \in SUBSET (1..n)
        OBVIOUS
      <4>3. h[s \ {n + 1}] = g[s \ {n + 1}]
        BY <2>2, <4>2
      <4>4. h[s] = Toggle(g[s \ {n + 1}], seq[n + 1], allowed)
        BY <3>1
      <4>. HIDE DEF h
      <4>. QED BY <4>1, <4>3, <4>4
    <3>2. CASE n + 1 \notin s
      <4>. HIDE DEF h
      <4>0. \A x \in 1..n + 1 : x # n + 1 => x \in 1..n
        OBVIOUS
      <4>1. s \in SUBSET (1..n) /\ s \ {Max(s)} \in SUBSET (1..n)
        BY <3>2, <4>0
      <4>2. h[s] = g[s] /\ h[s \ {Max(s)}] = g[s \ {Max(s)}]
        BY <2>2, <4>1
      <4>3. g[s] = Entry(g, s)
        BY <2>1, <4>1
      <4>. QED BY <4>2, <4>3
    <3>. QED BY <3>1, <3>2
  <2>4. h = [s \in SUBSET (1..n + 1) |-> Entry(h, s)]
    <3>. HIDE DEF Entry
    <3>. QED BY <2>3
  <2>. HIDE DEF h, Entry
  <2>. QED BY <2>4
<1>3. m \in Defined
  <2>. HIDE DEF Defined
  <2>. QED BY <1>1, <1>2, Induct
<1>. DEFINE iter == CHOOSE g : g = [s \in SUBSET (1..m) |-> Entry(g, s)]
            f == [k \in 0..m |-> iter[1..k]]
<1>4. iter = [s \in SUBSET (1..m) |-> Entry(iter, s)]
  <2>. HIDE DEF Entry
  <2>. QED BY <1>3
<1>5. f[m] = ToggleAll(base, seq, allowed)
  <2>1. f[m] = iter[1..m]
    <3>. HIDE DEF iter
    <3>. QED OBVIOUS
  <2>. HIDE DEF f
  <2>. QED BY <2>1 DEF ToggleAll, FoldLeft, MapThenFoldSet
<1>6. f[0] = base
  <2>1. 1..0 = {} /\ {} \in SUBSET (1..m)
    OBVIOUS
  <2>. HIDE DEF iter
  <2>. QED BY <1>4, <2>1
<1>7. ASSUME NEW k \in 0..m - 1 PROVE f[k + 1] = Toggle(f[k], seq[k + 1], allowed)
  <2>1. 1..k + 1 \in SUBSET (1..m) /\ k \in 0..m /\ k + 1 \in 0..m /\ 1..k + 1 # {}
        /\ (1..k + 1) \ {k + 1} = 1..k
    OBVIOUS
  <2>2. Max(1..k + 1) = k + 1
    BY LastIsMax
  <2>. HIDE DEF iter
  <2>. QED BY <1>4, <2>1, <2>2
<1>. HIDE DEF f
<1>. QED BY <1>5, <1>6, <1>7

-------------------------------------------------------------------------------
(* The IP filter *)

Single(entry) == Cardinality(entry) = 1

Ips(E) == {entry \in E : Single(entry)}
Nets(E) == {entry \in E : ~Single(entry)}

\* Filter f says v of the entries in E, and of the others what base says.
Listed(f, base, E, v) ==
    /\ f \in Filters /\ f.defaultAllowed = base.defaultAllowed
    /\ f.ips = {p \in base.ips : p.ip \notin Ips(E)}
               \cup {[ip |-> entry, allowed |-> v] : entry \in Ips(E)}
    /\ ToSet(f.subnets) = {s \in ToSet(base.subnets) : s.net \notin Nets(E)}
                          \cup {[net |-> entry, allowed |-> v] : entry \in Nets(E)}

LEMMA SingleIs ==
    ASSUME NEW entry \in SUBSET Addresses, NEW ip \in entry, Single(entry)
    PROVE  entry = {ip}
<1>1. IsFiniteSet(entry)
  BY AccessAddresses, FS_Subset
<1>2. \E x : entry = {x}
  BY <1>1, FS_Singleton DEF Single
<1>. QED BY <1>2

LEMMA OneIsSingle ==
    ASSUME NEW ip \in Addresses
    PROVE  Single({ip})
BY FS_Singleton DEF Single

\* ToggleIP: the last word on an entry replaces what was said of it.
LEMMA ToggleLists ==
    ASSUME NEW f \in Filters, NEW entry \in SUBSET Addresses, NEW v \in BOOLEAN
    PROVE  Listed(Toggle(f, entry, v), f, {entry}, v)
<1>. DEFINE Subnet == [net : SUBSET Addresses, allowed : BOOLEAN]
            net == [net |-> entry, allowed |-> v]
            known == {i \in DOMAIN f.subnets : f.subnets[i].net = entry}
            t == Toggle(f, entry, v)
<1>1. f.subnets \in Seq(Subnet) /\ net \in Subnet
  BY DEF Filters
<1>2. CASE Single(entry)
  <2>. DEFINE ips == {p \in f.ips : p.ip # entry} \cup {[ip |-> entry, allowed |-> v]}
  <2>1. t = [f EXCEPT !.ips = ips]
    BY <1>2 DEF Toggle, Single
  <2>2. ips \subseteq [ip : SUBSET Addresses, allowed : BOOLEAN]
    BY DEF Filters
  <2>3. t \in Filters /\ t.ips = ips /\ t.subnets = f.subnets
        /\ t.defaultAllowed = f.defaultAllowed
    BY <2>1, <2>2 DEF Filters
  <2>4. Ips({entry}) = {entry} /\ Nets({entry}) = {}
    BY <1>2 DEF Ips, Nets
  <2>. QED BY <2>3, <2>4 DEF Listed
<1>3. CASE ~Single(entry)
  <2>1. Ips({entry}) = {} /\ Nets({entry}) = {entry}
    BY <1>3 DEF Ips, Nets
  <2>2. ASSUME NEW nets \in Seq(Subnet), t = [f EXCEPT !.subnets = nets],
               ToSet(nets) = {s \in ToSet(f.subnets) : s.net # entry} \cup {net}
        PROVE  Listed(t, f, {entry}, v)
    <3>1. t \in Filters /\ t.ips = f.ips /\ t.subnets = nets
          /\ t.defaultAllowed = f.defaultAllowed
      BY <2>2 DEF Filters
    <3>. QED BY <2>1, <2>2, <3>1 DEF Listed
  <2>3. CASE known # {}
    <3>. DEFINE nets == [i \in DOMAIN f.subnets |-> IF i \in known THEN net ELSE f.subnets[i]]
    <3>1. t = [f EXCEPT !.subnets = nets]
      BY <1>3, <2>3 DEF Toggle, Single
    <3>2. nets \in Seq(Subnet)
      BY <1>1
    <3>3. ToSet(nets) = {s \in ToSet(f.subnets) : s.net # entry} \cup {net}
      BY <2>3 DEF ToSet
    <3>. HIDE DEF nets
    <3>. QED BY <2>2, <3>1, <3>2, <3>3
  <2>4. CASE known = {}
    <3>. DEFINE nets == Append(f.subnets, net)
    <3>1. t = [f EXCEPT !.subnets = nets]
      BY <1>3, <2>4 DEF Toggle, Single
    <3>2. nets \in Seq(Subnet) /\ DOMAIN nets = DOMAIN f.subnets \cup {Len(f.subnets) + 1}
          /\ nets[Len(f.subnets) + 1] = net
          /\ \A i \in DOMAIN f.subnets : nets[i] = f.subnets[i]
      BY <1>1
    <3>3. ToSet(nets) = {s \in ToSet(f.subnets) : s.net # entry} \cup {net}
      <4>. HIDE DEF nets
      <4>. QED BY <2>4, <3>2 DEF ToSet
    <3>. HIDE DEF nets
    <3>. QED BY <2>2, <3>1, <3>2, <3>3
  <2>. QED BY <2>3, <2>4
<1>. QED BY <1>2, <1>3

LEMMA ListedTwice ==
    ASSUME NEW f, NEW g, NEW h, NEW D, NEW E, NEW v,
           Listed(g, f, D, v), Listed(h, g, E, v)
    PROVE  Listed(h, f, D \cup E, v)
BY DEF Listed, Ips, Nets

\* AllowIP or BlockIP for each entry of a list, whatever its order.
LEMMA ListLists ==
    ASSUME NEW base \in Filters, NEW list \in Seq(SUBSET Addresses), NEW v \in BOOLEAN
    PROVE  Listed(ToggleAll(base, list, v), base, ToSet(list), v)
<1>. DEFINE m == Len(list)
            Upto(k) == {list[i] : i \in 1..k}
<1>1. m \in Nat /\ DOMAIN list = 1..m /\ Upto(m) = ToSet(list)
  BY DEF ToSet
<1>2. PICK f : /\ f[0] = base
               /\ f[m] = ToggleAll(base, list, v)
               /\ \A k \in 0..m - 1 : f[k + 1] = Toggle(f[k], list[k + 1], v)
  BY <1>1, OneByOne
<1>. DEFINE Good == {k \in Nat : k <= m => Listed(f[k], base, Upto(k), v)}
<1>3. 0 \in Good
  <2>1. Upto(0) = {}
    OBVIOUS
  <2>. HIDE DEF Upto
  <2>2. Listed(base, base, {}, v)
    BY DEF Listed, Ips, Nets
  <2>. QED BY <1>2, <2>1, <2>2
<1>4. ASSUME NEW k \in Nat, k \in Good PROVE k + 1 \in Good
  <2>. SUFFICES ASSUME k + 1 <= m PROVE Listed(f[k + 1], base, Upto(k + 1), v)
    OBVIOUS
  <2>1. Listed(f[k], base, Upto(k), v) /\ k \in 0..m - 1 /\ list[k + 1] \in SUBSET Addresses
    BY <1>1, <1>4
  <2>2. f[k] \in Filters /\ f[k + 1] = Toggle(f[k], list[k + 1], v)
    BY <1>2, <2>1 DEF Listed
  <2>3. Upto(k + 1) = Upto(k) \cup {list[k + 1]}
    <3>1. 1..k + 1 = 1..k \cup {k + 1}
      OBVIOUS
    <3>. QED BY <3>1
  <2>4. Listed(f[k + 1], f[k], {list[k + 1]}, v)
    BY <2>1, <2>2, ToggleLists
  <2>. HIDE DEF Upto
  <2>. QED BY <2>1, <2>3, <2>4, ListedTwice
<1>5. m \in Good
  <2>. HIDE DEF Good
  <2>. QED BY <1>1, <1>3, <1>4, Induct
<1>. HIDE DEF Upto
<1>. QED BY <1>1, <1>2, <1>5

\* newIPFilter: what is listed twice is allowed.
LEMMA NewFilterLists ==
    ASSUME NEW o \in Options
    PROVE  LET A == ToSet(o.allowed)
               B == ToSet(o.blocked)
               f == NewFilter(o)
           IN
           /\ f \in Filters /\ f.defaultAllowed = ~o.blockByDefault
           /\ f.ips = {[ip |-> entry, allowed |-> FALSE] : entry \in Ips(B \ A)}
                      \cup {[ip |-> entry, allowed |-> TRUE] : entry \in Ips(A)}
           /\ ToSet(f.subnets) = {[net |-> entry, allowed |-> FALSE] : entry \in Nets(B \ A)}
                                 \cup {[net |-> entry, allowed |-> TRUE] : entry \in Nets(A)}
<1>. DEFINE A == ToSet(o.allowed)
            B == ToSet(o.blocked)
            e == EmptyFilter(o)
            g == ToggleAll(e, o.blocked, FALSE)
            f == NewFilter(o)
<1>1. o.allowed \in Seq(SUBSET Addresses) /\ o.blocked \in Seq(SUBSET Addresses)
  BY DEF Options
<1>2. /\ e \in Filters /\ e.ips = {} /\ ToSet(e.subnets) = {}
      /\ e.defaultAllowed = ~o.blockByDefault
  BY DEF EmptyFilter, Filters, Options, ToSet
<1>3. Listed(g, e, B, FALSE)
  BY <1>1, <1>2, ListLists
<1>4. Listed(f, g, A, TRUE)
  <2>1. g \in Filters
    BY <1>3 DEF Listed
  <2>. QED BY <1>1, <2>1, ListLists DEF NewFilter
<1>. HIDE DEF A, B, e, f, g
<1>5. g.ips = {[ip |-> entry, allowed |-> FALSE] : entry \in Ips(B)}
      /\ ToSet(g.subnets) = {[net |-> entry, allowed |-> FALSE] : entry \in Nets(B)}
      /\ g.defaultAllowed = ~o.blockByDefault
  BY <1>2, <1>3 DEF Listed
<1>6. f \in Filters /\ f.defaultAllowed = ~o.blockByDefault
  BY <1>4, <1>5 DEF Listed
<1>7. f.ips = {[ip |-> entry, allowed |-> FALSE] : entry \in Ips(B \ A)}
              \cup {[ip |-> entry, allowed |-> TRUE] : entry \in Ips(A)}
  BY <1>4, <1>5 DEF Listed, Ips
<1>8. ToSet(f.subnets) = {[net |-> entry, allowed |-> FALSE] : entry \in Nets(B \ A)}
                         \cup {[net |-> entry, allowed |-> TRUE] : entry \in Nets(A)}
  BY <1>4, <1>5 DEF Listed, Nets
<1>. QED BY <1>6, <1>7, <1>8 DEF A, B, f

\* ipFilter.NetAllowed, on such a filter.
LEMMA FilterMeans ==
    ASSUME NEW o \in Options, NEW ip
    PROVE  NetAllowed(NewFilter(o), ip) <=> Meant(o, ip)
<1>. SUFFICES ASSUME ip \in Addresses
              PROVE  NetAllowed(NewFilter(o), ip) <=> Meant(o, ip)
  BY DEF NetAllowed, Meant
<1>. DEFINE f == NewFilter(o)
            A == ToSet(o.allowed)
            B == ToSet(o.blocked)
            single == {p \in f.ips : ip \in p.ip}
            nets == {s \in ToSet(f.subnets) : ip \in s.net}
<1>1. /\ f \in Filters /\ f.defaultAllowed = ~o.blockByDefault
      /\ f.ips = {[ip |-> entry, allowed |-> FALSE] : entry \in Ips(B \ A)}
                 \cup {[ip |-> entry, allowed |-> TRUE] : entry \in Ips(A)}
      /\ ToSet(f.subnets) = {[net |-> entry, allowed |-> FALSE] : entry \in Nets(B \ A)}
                            \cup {[net |-> entry, allowed |-> TRUE] : entry \in Nets(A)}
  BY NewFilterLists
<1>2. A \subseteq SUBSET Addresses /\ B \subseteq SUBSET Addresses
  BY DEF Options, ToSet
<1>3. NetAllowed(f, ip) <=> IF single # {} THEN \A p \in single : p.allowed
                            ELSE IF nets # {} THEN \E s \in nets : s.allowed
                            ELSE ~o.blockByDefault
  BY <1>1 DEF NetAllowed
<1>4. Meant(o, ip) <=> \/ {ip} \in A
                       \/ {ip} \notin B /\ \E net \in A : ip \in net
                       \/ ~o.blockByDefault /\ \A net \in B : ip \notin net
  BY DEF Meant
<1>. HIDE DEF f, A, B
<1>5. \A E : E \subseteq SUBSET Addresses =>
          \A entry \in Ips(E) : ip \in entry => entry = {ip} /\ {ip} \in E
  BY SingleIs DEF Ips
<1>6. \A E : E \subseteq SUBSET Addresses =>
          \A entry \in E : ip \in entry => entry = {ip} \/ entry \in Nets(E)
  BY SingleIs DEF Nets
<1>7. CASE {ip} \in A
  <2>1. [ip |-> {ip}, allowed |-> TRUE] \in single
    BY <1>1, <1>7, OneIsSingle DEF Ips
  <2>2. ASSUME NEW p \in single PROVE p.allowed = TRUE
    <3>1. CASE p \in {[ip |-> entry, allowed |-> TRUE] : entry \in Ips(A)}
      BY <3>1
    <3>2. CASE p \in {[ip |-> entry, allowed |-> FALSE] : entry \in Ips(B \ A)}
      <4>1. PICK entry \in Ips(B \ A) : p = [ip |-> entry, allowed |-> FALSE]
        BY <3>2
      <4>2. ip \in entry
        BY <4>1
      <4>3. {ip} \in B \ A
        BY <4>1, <4>2, <1>2, <1>5
      <4>. QED BY <4>3, <1>7
    <3>. QED BY <1>1, <3>1, <3>2
  <2>. QED BY <1>3, <1>4, <1>7, <2>1, <2>2 DEF f
<1>8. CASE {ip} \notin A /\ {ip} \in B
  <2>1. [ip |-> {ip}, allowed |-> FALSE] \in single
    BY <1>1, <1>8, OneIsSingle DEF Ips
  <2>2. ~ \A p \in single : p.allowed
    BY <2>1
  <2>3. ~ Meant(o, ip)
    BY <1>4, <1>8
  <2>. QED BY <1>3, <2>1, <2>2, <2>3 DEF f
<1>9. CASE {ip} \notin A /\ {ip} \notin B
  <2>1. single = {}
    BY <1>1, <1>2, <1>5, <1>9
  <2>2. nets = {[net |-> entry, allowed |-> FALSE] : entry \in {x \in Nets(B \ A) : ip \in x}}
               \cup {[net |-> entry, allowed |-> TRUE] : entry \in {x \in Nets(A) : ip \in x}}
    BY <1>1
  <2>3. \A entry \in A : ip \in entry => entry \in Nets(A)
    BY <1>2, <1>6, <1>9
  <2>4. \A entry \in B \ A : ip \in entry => entry \in Nets(B \ A)
    BY <1>2, <1>6, <1>9
  <2>5. Nets(A) \subseteq A /\ Nets(B \ A) \subseteq B \ A
    BY DEF Nets
  <2>. HIDE DEF nets, single
  <2>6. CASE \E entry \in A : ip \in entry
    <3>1. PICK entry \in A : ip \in entry
      BY <2>6
    <3>2. [net |-> entry, allowed |-> TRUE] \in nets
      BY <2>2, <2>3, <3>1
    <3>3. \E s \in nets : s.allowed
      BY <3>2
    <3>. QED BY <1>3, <1>4, <1>9, <2>1, <2>6, <3>2, <3>3 DEF f
  <2>7. CASE \A entry \in A : ip \notin entry
    <3>1. nets = {[net |-> entry, allowed |-> FALSE] : entry \in {x \in Nets(B \ A) : ip \in x}}
      BY <2>2, <2>5, <2>7
    <3>2. \A s \in nets : ~s.allowed
      BY <3>1
    <3>3. nets = {} <=> \A entry \in B : ip \notin entry
      BY <3>1, <2>4, <2>5, <2>7
    <3>. QED BY <1>3, <1>4, <1>9, <2>1, <2>7, <3>2, <3>3 DEF f
  <2>. QED BY <2>6, <2>7
<1>. QED BY <1>7, <1>8, <1>9

-------------------------------------------------------------------------------
(* The invariant of limiters, spool and scan *)

Asking(r) == at[r] \in {"asking", "charging"}
Charging(r, k, a) == at[r] = "charging" /\ asks[r] = k /\ from[r] = a

\* A request that has arrived comes from somewhere, and one that asks a bucket has
\* read the clock, at most MaxLate ago.
AskersReady ==
    \A r \in Requests :
        /\ at[r] # "idle" => from[r] \in Callers
        /\ Asking(r) => /\ asks[r] \in Kinds
                        /\ now[r] <= clock /\ clock - now[r] <= MaxLate

\* The bucket a request holds is in the map, and its stamp is as recent as the
\* time the request has read, but for the lateness of who stamped it last.
HeldBuckets ==
    \A r \in Requests : at[r] = "charging" =>
        /\ bucket[asks[r]][from[r]] # Nil
        /\ now[r] - bucket[asks[r]][from[r]].seen <= MaxLate

\* The times at which a bucket was charged last or may be charged next.
Times(k, a) ==
    {bucket[k][a].last} \cup {now[r] : r \in {q \in Requests : Charging(q, k, a)}}

\* The meter and what the bucket holds now add up to a burst, with the slip; and
\* the slip pays for the stamp of the bucket being older than those times.
Metered(k, a) ==
    LET b == bucket[k][a] IN
    IF b = Nil THEN level[k][a] <= slip
    ELSE /\ b.last <= clock /\ b.seen <= clock
         /\ level[k][a] + TokensAt(k, b, clock) <= Burst[k] + slip
         /\ \A x \in Times(k, a) :
                /\ x - b.seen <= slip
                /\ level[k][a] + TokensAt(k, b, clock) + (x - b.seen) <= Burst[k] + slip

MeterInv == \A k \in Kinds, a \in Callers : Metered(k, a)

LimitInv == AskersReady /\ HeldBuckets /\ MeterInv

\* A request that has not come to the spool, or that is answered, has no file.
NotSpooledYet ==
    \A r \in Requests :
        at[r] \in {"idle", "begun"} \/ (Asking(r) /\ asks[r] = "requests") =>
            r \notin spooled

\* With the prescan on, a request beyond the scan has been vetted.
VettedAhead ==
    config.prescan =>
        \A r \in Requests :
            at[r] = "storing" \/ (Asking(r) /\ asks[r] = "kilobytes") => r \in vetted

ScanInv == NotSpooledYet /\ VettedAhead /\ CleanStored

IInv == TypeOK /\ LimitInv /\ ScanInv
USE EdgeSets, EdgeBurst, EdgeIdle, EdgeBounds, EdgeSlip, EdgeNil

-------------------------------------------------------------------------------
(* Numbers and buckets *)

LEMMA TokensType ==
    ASSUME NEW k \in Kinds, NEW b \in Buckets, NEW t \in Int
    PROVE  /\ TokensAt(k, b, t) \in Nat
           /\ TokensAt(k, b, t) <= Burst[k]
BY DEF TokensAt, Least, Max0, Buckets

\* A bucket holds no less later, and at most one more unit for each tick.
LEMMA TokensGrow ==
    ASSUME NEW k \in Kinds, NEW b \in Buckets, NEW s \in Int, NEW t \in Int, s <= t
    PROVE  /\ TokensAt(k, b, s) <= TokensAt(k, b, t)
           /\ TokensAt(k, b, t) <= TokensAt(k, b, s) + (t - s)
BY DEF TokensAt, Least, Max0, Buckets

\* A bucket that was not charged for long is nearly full.
LEMMA TokensRefill ==
    ASSUME NEW k \in Kinds, NEW b \in Buckets, NEW t \in Int
    PROVE  TokensAt(k, b, t) >= Burst[k] \/ TokensAt(k, b, t) >= t - b.last
BY DEF TokensAt, Least, Max0, Buckets

LEMMA FullBucketIsFull ==
    ASSUME NEW k \in Kinds, NEW s \in Nat, NEW t \in Nat
    PROVE  /\ FullBucket(k, s) \in Buckets
           /\ FullBucket(k, s).last = -Burst[k] /\ FullBucket(k, s).seen = s
           /\ FullBucket(k, s).tokens = Burst[k]
           /\ TokensAt(k, FullBucket(k, s), t) = Burst[k]
BY DEF FullBucket, TokensAt, Least, Max0, Buckets

-------------------------------------------------------------------------------
(* What several actions have in common *)

\* Steps that leave the limiters and the clock alone, and at most make requests
\* read the clock, keep the limiters' invariant.
LEMMA Quiet ==
    ASSUME TypeOK, LimitInv, UNCHANGED <<bucket, level, slip, clock>>,
           \A r \in Requests : at'[r] # "idle" => from'[r] \in Callers,
           \A r \in Requests : Asking(r)' =>
               \/ /\ Asking(r)
                  /\ at'[r] = at[r] /\ asks'[r] = asks[r]
                  /\ from'[r] = from[r] /\ now'[r] = now[r]
               \/ /\ at'[r] = "asking" /\ asks'[r] \in Kinds
                  /\ now'[r] = clock
    PROVE  LimitInv'
<1>1. AskersReady'
  <2>1. clock \in Nat /\ clock - clock <= MaxLate
    BY DEF TypeOK
  <2>. QED BY <2>1 DEF LimitInv, AskersReady, Asking
<1>2. HeldBuckets'
  BY DEF LimitInv, HeldBuckets, Asking
<1>3. MeterInv'
  <2>. SUFFICES ASSUME NEW k \in Kinds, NEW a \in Callers
                PROVE  Metered(k, a)'
    BY DEF MeterInv
  <2>1. Times(k, a)' \subseteq Times(k, a)
    BY DEF Times, Charging, Asking
  <2>2. Metered(k, a)
    BY DEF LimitInv, MeterInv
  <2>. QED BY <2>1, <2>2 DEF Metered, TokensAt
<1>. QED BY <1>1, <1>2, <1>3 DEF LimitInv

\* A request that is answered.
LEMMA FinishType ==
    ASSUME TypeOK, NEW r \in Requests, Finish(r)
    PROVE  /\ at' \in [Requests -> Place]
           /\ route' \in [Requests -> Routes \cup {Nil}]
           /\ from' \in [Requests -> Callers \cup {Nil}]
           /\ now' \in [Requests -> 0..MaxClock] /\ units' \in [Requests -> Nat]
           /\ asks' \in [Requests -> Kinds \cup {Nil}]
           /\ spooled' \subseteq Requests /\ vetted' \subseteq Requests
<1>1. "idle" \in Place /\ 0 \in 0..MaxClock /\ 0 \in Nat
  BY DEF Place
<1>. QED BY <1>1 DEF TypeOK, Finish, Goto, StopAsking

LEMMA FinishInv ==
    ASSUME IInv, NEW r \in Requests, Finish(r), UNCHANGED <<config, bucket, level, slip, clock>>
    PROVE  LimitInv' /\ NotSpooledYet' /\ VettedAhead'
<1>. USE DEF IInv
<1>1. at' = [at EXCEPT ![r] = "idle"]
  BY DEF Finish, Goto
<1>2. \A q \in Requests : q # r =>
          /\ at'[q] = at[q] /\ asks'[q] = asks[q] /\ from'[q] = from[q] /\ now'[q] = now[q]
          /\ (q \in spooled' <=> q \in spooled) /\ (q \in vetted' <=> q \in vetted)
  BY DEF Finish, Goto, StopAsking, TypeOK
<1>3. at'[r] = "idle" /\ r \notin spooled'
  BY <1>1 DEF Finish, TypeOK
<1>4. LimitInv'
  <2>1. \A q \in Requests : at'[q] # "idle" => from'[q] \in Callers
    BY <1>2, <1>3 DEF LimitInv, AskersReady
  <2>. QED BY <1>2, <1>3, <2>1, Quiet DEF Asking
<1>5. NotSpooledYet'
  BY <1>2, <1>3 DEF ScanInv, NotSpooledYet, Asking
<1>6. VettedAhead'
  BY <1>2, <1>3 DEF ScanInv, VettedAhead, Asking
<1>. QED BY <1>4, <1>5, <1>6

\* An action that only answers a request.
LEMMA AnswerInv ==
    ASSUME IInv, NEW r \in Requests, Finish(r), UNCHANGED <<processVars, limitVars, stored>>
    PROVE  IInv'
<1>1. TypeOK'
  BY FinishType DEF IInv, TypeOK, processVars, limitVars
<1>2. LimitInv' /\ NotSpooledYet' /\ VettedAhead'
  BY FinishInv DEF processVars, limitVars
<1>3. CleanStored'
  BY DEF IInv, ScanInv, CleanStored, processVars
<1>. QED BY <1>1, <1>2, <1>3 DEF IInv, ScanInv

\* A request that asks a bucket.
LEMMA AskType ==
    ASSUME TypeOK, NEW r \in Requests, NEW k \in Kinds, NEW n \in Nat, Ask(r, k, n)
    PROVE  /\ at' \in [Requests -> Place]
           /\ now' \in [Requests -> 0..MaxClock] /\ units' \in [Requests -> Nat]
           /\ asks' \in [Requests -> Kinds \cup {Nil}]
<1>1. "asking" \in Place
  BY DEF Place
<1>. QED BY <1>1 DEF TypeOK, Ask, Goto

\* A request that goes from a place outside the limiters to another one.
LEMMA MoveInv ==
    ASSUME IInv, NEW r \in Requests, NEW p \in Place, ~Asking(r), Goto(r, p),
           at[r] # "idle",
           p \notin {"asking", "charging"},
           UNCHANGED <<route, from, now, asks, units, processVars, limitVars>>
    PROVE  /\ LimitInv'
           /\ at' \in [Requests -> Place]
<1>1. at' \in [Requests -> Place] /\ at'[r] = p /\ \A q \in Requests : q # r => at'[q] = at[q]
  BY DEF IInv, TypeOK, Goto
<1>2. LimitInv'
  <2>1. \A q \in Requests : at'[q] # "idle" => from'[q] \in Callers
    BY <1>1 DEF IInv, LimitInv, AskersReady
  <2>. QED BY <1>1, <2>1, Quiet DEF IInv, Asking, processVars, limitVars
<1>. QED BY <1>1, <1>2

-------------------------------------------------------------------------------
(* The middleware and the buckets *)

LEMMA ArriveInv ==
    ASSUME IInv, NEW r \in Requests, NEW rt \in Routes, NEW ip \in Callers, NEW c,
           Arrive(r, rt, ip, c)
    PROVE  IInv'
<1>. USE DEF IInv
<1>1. at[r] = "idle" /\ route' \in [Requests -> Routes \cup {Nil}]
      /\ from' = [from EXCEPT ![r] = ip] /\ htpasswd' \in BOOLEAN
  BY DEF Arrive, TypeOK
<1>2. from' \in [Requests -> Callers \cup {Nil}] /\ from'[r] = ip
      /\ \A q \in Requests : q # r => from'[q] = from[q]
  BY <1>1 DEF TypeOK
<1>3. UNCHANGED <<config, server, filter, clock, stops, orphans, bucket, lastGC, level, slip,
                  spooled, vetted, stored>>
  BY DEF Arrive, limitVars, scanVars
<1>4. r \notin spooled
  BY <1>1 DEF ScanInv, NotSpooledYet
<1>5. CASE Ask(r, "requests", 1)
  <2>0. "requests" \in Kinds
    BY DEF Kinds
  <2>1. /\ at' \in [Requests -> Place] /\ now' \in [Requests -> 0..MaxClock]
        /\ units' \in [Requests -> Nat] /\ asks' \in [Requests -> Kinds \cup {Nil}]
    BY <1>5, <2>0, AskType
  <2>2. at'[r] = "asking" /\ asks'[r] = "requests" /\ now'[r] = clock
    BY <1>5 DEF Ask, Goto, TypeOK
  <2>3. \A q \in Requests : q # r => at'[q] = at[q] /\ asks'[q] = asks[q] /\ now'[q] = now[q]
    BY <1>5 DEF Ask, Goto, TypeOK
  <2>4. TypeOK'
    BY <1>1, <1>2, <1>3, <2>1 DEF TypeOK
  <2>5. LimitInv'
    <3>1. \A q \in Requests : at'[q] # "idle" => from'[q] \in Callers
      BY <1>2, <2>3 DEF LimitInv, AskersReady
    <3>. QED BY <1>2, <1>3, <2>0, <2>2, <2>3, <3>1, Quiet DEF Asking
  <2>6. ScanInv'
    BY <1>3, <1>4, <2>2, <2>3 DEF ScanInv, NotSpooledYet, VettedAhead, CleanStored, Asking
  <2>. QED BY <2>4, <2>5, <2>6
<1>6. CASE Goto(r, "begun") /\ UNCHANGED <<now, asks, units>>
  <2>1. at' \in [Requests -> Place]
    BY <1>6 DEF Goto, TypeOK, Place
  <2>2. at'[r] = "begun" /\ \A q \in Requests : q # r => at'[q] = at[q]
    BY <1>6 DEF Goto, TypeOK
  <2>4. TypeOK'
    BY <1>1, <1>2, <1>3, <1>6, <2>1 DEF TypeOK
  <2>5. LimitInv'
    <3>1. \A q \in Requests : at'[q] # "idle" => from'[q] \in Callers
      BY <1>2, <2>2 DEF LimitInv, AskersReady
    <3>. QED BY <1>2, <1>3, <1>6, <2>2, <3>1, Quiet DEF Asking
  <2>6. ScanInv'
    BY <1>3, <1>4, <1>6, <2>2 DEF ScanInv, NotSpooledYet, VettedAhead, CleanStored, Asking
  <2>. QED BY <2>4, <2>5, <2>6
<1>. QED BY <1>5, <1>6 DEF Arrive

\* Finding, stamping and sweeping.  A bucket that somebody holds is not idle, and
\* one that is idle is full.
LEMMA LookupInv == ASSUME IInv, NEW r \in Requests, Lookup(r) PROVE IInv'
<1>. USE DEF IInv
<1>. DEFINE k == asks[r]
            a == from[r]
            t == now[r]
            b == bucket[k][a]
            stamped == IF b = Nil THEN FullBucket(k, t) ELSE [b EXCEPT !.seen = t]
<1>1. /\ k \in Kinds /\ a \in Callers /\ t \in Nat /\ t <= clock /\ clock - t <= MaxLate
      /\ at[r] = "asking"
  BY DEF Lookup, LimitInv, AskersReady, Asking, TypeOK
<1>2. /\ at' = [at EXCEPT ![r] = "charging"] /\ slip' = slip + (clock - t)
      /\ UNCHANGED <<config, server, filter, htpasswd, clock, stops, orphans, route, from,
                     now, asks, units, level, spooled, vetted, stored>>
  BY DEF Lookup, Goto, processVars, scanVars
<1>3. at' \in [Requests -> Place] /\ at'[r] = "charging"
      /\ \A q \in Requests : q # r => at'[q] = at[q]
  BY <1>2 DEF TypeOK, Place
<1>4. stamped \in Buckets /\ stamped.seen = t /\ stamped.tokens <= Burst[k] /\ stamped # Nil
  <2>1. CASE b = Nil
    BY <1>1, <2>1, FullBucketIsFull
  <2>2. CASE b # Nil
    <3>1. b \in Buckets /\ b.tokens <= Burst[k]
      BY <1>1, <2>2 DEF TypeOK
    <3>. QED BY <1>1, <2>2, <3>1 DEF Buckets
  <2>. QED BY <2>1, <2>2
<1>5. /\ bucket'[k][a] = stamped
      /\ \A j \in Kinds, x \in Callers : j # k \/ x # a =>
             \/ bucket'[j][x] = bucket[j][x]
             \/ bucket'[j][x] = Nil /\ bucket[j][x] # Nil
                /\ t - bucket[j][x].seen > IdleTTL[j] /\ j = k
      /\ bucket' \in [Kinds -> [Callers -> Buckets \cup {Nil}]]
  <2>. DEFINE sweep == t - lastGC[k] > IdleTTL[k]
              row == [x \in Callers |->
                         IF x = a THEN stamped
                         ELSE IF sweep /\ Idle(k, bucket[k][x], t) THEN Nil
                         ELSE bucket[k][x]]
  <2>1. bucket' = [bucket EXCEPT ![k] = row]
    BY DEF Lookup
  <2>2. row \in [Callers -> Buckets \cup {Nil}]
    BY <1>1, <1>4 DEF TypeOK
  <2>3. bucket'[k] = row /\ \A j \in Kinds : j # k => bucket'[j] = bucket[j]
    BY <1>1, <2>1 DEF TypeOK
  <2>4. bucket' \in [Kinds -> [Callers -> Buckets \cup {Nil}]]
    BY <1>1, <2>1, <2>2 DEF TypeOK
  <2>5. row[a] = stamped
    BY <1>1
  <2>6. \A x \in Callers : x # a =>
            \/ row[x] = bucket[k][x]
            \/ row[x] = Nil /\ bucket[k][x] # Nil /\ t - bucket[k][x].seen > IdleTTL[k]
    BY DEF Idle
  <2>. QED BY <2>3, <2>4, <2>5, <2>6
<1>6. TypeOK'
  <2>1. \A j \in Kinds, x \in Callers :
            bucket'[j][x] # Nil => bucket'[j][x].tokens <= Burst[j]
    <3>. SUFFICES ASSUME NEW j \in Kinds, NEW x \in Callers, bucket'[j][x] # Nil
                  PROVE  bucket'[j][x].tokens <= Burst[j]
      OBVIOUS
    <3>1. CASE j = k /\ x = a
      BY <1>4, <1>5, <3>1
    <3>2. CASE bucket'[j][x] = bucket[j][x]
      BY <3>2 DEF TypeOK
    <3>. QED BY <1>5, <3>1, <3>2
  <2>2. lastGC' \in [Kinds -> 0..MaxClock]
    BY <1>1 DEF Lookup, TypeOK
  <2>3. slip' \in Nat
    BY <1>1, <1>2 DEF TypeOK
  <2>. QED BY <1>2, <1>3, <1>5, <2>1, <2>2, <2>3 DEF TypeOK
<1>7. AskersReady'
  BY <1>1, <1>2, <1>3 DEF LimitInv, AskersReady, Asking
<1>8. HeldBuckets'
  <2>. SUFFICES ASSUME NEW q \in Requests, at'[q] = "charging"
                PROVE  /\ bucket'[asks[q]][from[q]] # Nil
                       /\ now[q] - bucket'[asks[q]][from[q]].seen <= MaxLate
    BY <1>2 DEF HeldBuckets
  <2>0. MaxLate \in Nat /\ t - t <= MaxLate
    BY <1>1, EdgeBounds
  <2>1. CASE q = r
    BY <1>1, <1>4, <1>5, <2>0, <2>1
  <2>2. CASE q # r
    <3>1. /\ at[q] = "charging" /\ asks[q] \in Kinds /\ from[q] \in Callers
          /\ bucket[asks[q]][from[q]] # Nil
          /\ now[q] - bucket[asks[q]][from[q]].seen <= MaxLate
          /\ now[q] <= clock /\ clock - now[q] <= MaxLate
          /\ now[q] \in Nat /\ clock \in Nat
      BY <1>3, <2>2 DEF LimitInv, AskersReady, HeldBuckets, Asking, TypeOK
    <3>2. CASE asks[q] = k /\ from[q] = a
      <4>1. now[q] - t <= MaxLate
        BY <1>1, <2>0, <3>1
      <4>. QED BY <1>1, <1>4, <1>5, <3>2, <4>1
    <3>3. CASE asks[q] # k \/ from[q] # a
      <4>1. bucket[asks[q]][from[q]].seen \in Nat /\ clock \in Nat
            /\ 2 * MaxLate <= IdleTTL[asks[q]] /\ IdleTTL[asks[q]] \in Nat
        BY <3>1 DEF TypeOK, Buckets
      <4>2. ~(t - bucket[asks[q]][from[q]].seen > IdleTTL[asks[q]])
        BY <1>1, <3>1, <4>1
      <4>. QED BY <1>5, <3>1, <3>3, <4>2
    <3>. QED BY <3>2, <3>3
  <2>. QED BY <2>1, <2>2
<1>9. MeterInv'
  <2>. SUFFICES ASSUME NEW j \in Kinds, NEW x \in Callers
                PROVE  Metered(j, x)'
    BY DEF MeterInv
  <2>0. Metered(j, x) /\ clock \in Nat /\ level[j][x] \in Nat /\ slip \in Nat /\ slip' \in Nat
        /\ slip <= slip' /\ Burst[j] \in Nat
    BY <1>1, <1>2, <1>6 DEF LimitInv, MeterInv, TypeOK
  <2>1. CASE j = k /\ x = a
    <3>1. /\ bucket'[j][x] = stamped /\ stamped \in Buckets
          /\ stamped.last \in Int /\ stamped.last <= clock /\ stamped.seen = t
          /\ TokensAt(j, stamped, clock) \in Nat
          /\ level[j][x] + TokensAt(j, stamped, clock) <= Burst[j] + slip
      <4>0. bucket'[j][x] = stamped /\ stamped \in Buckets /\ stamped.seen = t
            /\ stamped.last \in Int /\ TokensAt(j, stamped, clock) \in Nat
        BY <1>4, <1>5, <2>0, <2>1, TokensType DEF Buckets
      <4>1. CASE b = Nil
        <5>1. TokensAt(j, stamped, clock) = Burst[j] /\ stamped.last = -Burst[j]
          BY <1>1, <2>0, <2>1, <4>1, FullBucketIsFull
        <5>2. level[j][x] <= slip
          BY <2>0, <2>1, <4>1 DEF Metered
        <5>. QED BY <2>0, <4>0, <5>1, <5>2
      <4>2. CASE b # Nil
        <5>1. b \in Buckets
          BY <1>1, <4>2 DEF TypeOK
        <5>2. stamped.last = b.last /\ stamped.tokens = b.tokens
          BY <4>2, <5>1 DEF Buckets
        <5>3. TokensAt(j, stamped, clock) = TokensAt(j, b, clock)
          BY <5>2 DEF TokensAt
        <5>. QED BY <2>0, <2>1, <4>0, <4>2, <5>2, <5>3 DEF Metered
      <4>. QED BY <4>1, <4>2
    <3>2. \A y \in Times(j, x)' : y \in Int /\ y <= clock
      <4>1. \A q \in Requests : at'[q] = "charging" => now'[q] \in Int /\ now'[q] <= clock
        BY <1>2, <1>3, <1>6, <1>7 DEF AskersReady, Asking, TypeOK
      <4>. QED BY <3>1, <4>1 DEF Times, Charging
    <3>3. slip' = slip + (clock - t)
      BY <1>2
    <3>4. /\ level[j][x] + TokensAt(j, stamped, clock) <= Burst[j] + slip'
          /\ \A y \in Times(j, x)' :
                 /\ y - stamped.seen <= slip'
                 /\ level[j][x] + TokensAt(j, stamped, clock) + (y - stamped.seen)
                        <= Burst[j] + slip'
      BY <1>1, <2>0, <3>1, <3>2, <3>3
    <3>. QED BY <1>1, <1>2, <1>4, <3>1, <3>4 DEF Metered, TokensAt
  <2>2. CASE (j # k \/ x # a) /\ bucket'[j][x] = bucket[j][x]
    <3>1. Times(j, x)' \subseteq Times(j, x)
      BY <1>2, <1>3, <2>2 DEF Times, Charging
    <3>2. CASE bucket[j][x] = Nil
      BY <1>2, <2>0, <2>2, <3>2 DEF Metered
    <3>3. CASE bucket[j][x] # Nil
      <4>1. bucket[j][x] \in Buckets /\ TokensAt(j, bucket[j][x], clock) \in Nat
            /\ bucket[j][x].last \in Int /\ bucket[j][x].seen \in Nat
        BY <2>0, <3>3, TokensType DEF TypeOK, Buckets
      <4>2. \A y \in Times(j, x) : y \in Int
        BY <4>1 DEF Times, TypeOK
      <4>. QED BY <1>2, <2>0, <2>2, <3>1, <3>3, <4>1, <4>2 DEF Metered, TokensAt
    <3>. QED BY <3>2, <3>3
  <2>3. CASE bucket'[j][x] = Nil /\ bucket[j][x] # Nil /\ t - bucket[j][x].seen > IdleTTL[j]
    <3>. DEFINE c == bucket[j][x]
    <3>1. c \in Buckets /\ TokensAt(j, c, clock) \in Nat /\ c.last \in Int /\ c.seen \in Nat
      BY <2>0, <2>3, TokensType DEF TypeOK, Buckets
    <3>2. /\ level[j][x] + TokensAt(j, c, clock) <= Burst[j] + slip
          /\ level[j][x] + TokensAt(j, c, clock) + (c.last - c.seen) <= Burst[j] + slip
      BY <2>0, <2>3 DEF Metered, Times
    <3>3. clock - c.seen > Burst[j]
      BY <1>1, <2>0, <2>3, <3>1
    <3>4. TokensAt(j, c, clock) >= Burst[j] \/ TokensAt(j, c, clock) >= clock - c.last
      BY <2>0, <3>1, TokensRefill
    <3>5. level[j][x] <= slip
      BY <2>0, <3>1, <3>2, <3>3, <3>4
    <3>. QED BY <1>2, <2>0, <2>3, <3>5 DEF Metered
  <2>. QED BY <1>5, <2>1, <2>2, <2>3
<1>10. ScanInv'
  BY <1>1, <1>2, <1>3 DEF ScanInv, NotSpooledYet, VettedAhead, CleanStored, Asking
<1>. QED BY <1>6, <1>7, <1>8, <1>9, <1>10 DEF LimitInv

\* A grant raises the meter by what it takes from the bucket.  The bucket's time
\* may go back to the time the request has read, which the slip pays for.
LEMMA GrantedInv == ASSUME IInv, NEW r \in Requests, Granted(r) PROVE IInv'
<1>. USE DEF IInv
<1>. DEFINE k == asks[r]
            a == from[r]
            t == now[r]
            b == bucket[k][a]
            n == units[r]
            charged == [b EXCEPT !.tokens = TokensAt(k, b, t) - n, !.last = t]
            p == IF k = "requests" THEN "begun" ELSE "storing"
<1>1. /\ k \in Kinds /\ a \in Callers /\ t \in Nat /\ t <= clock /\ clock \in Nat
      /\ at[r] = "charging" /\ n \in Nat /\ clock - t \in Nat
      /\ b \in Buckets /\ b # Nil /\ n <= TokensAt(k, b, t) /\ TokensAt(k, b, t) \in Nat
      /\ TokensAt(k, b, t) <= Burst[k] /\ Burst[k] \in Nat
  <2>1. k \in Kinds /\ a \in Callers /\ t \in Nat /\ t <= clock /\ clock \in Nat
        /\ at[r] = "charging" /\ n \in Nat
    BY DEF Granted, LimitInv, AskersReady, Asking, TypeOK
  <2>2. b # Nil
    BY <2>1 DEF LimitInv, HeldBuckets
  <2>3. b \in Buckets
    BY <2>1, <2>2 DEF TypeOK
  <2>4. n <= TokensAt(k, b, t)
    BY <2>1, <2>3, TokensType DEF Granted
  <2>. QED BY <2>1, <2>2, <2>3, <2>4, TokensType
<1>2. /\ at' = [at EXCEPT ![r] = p]
      /\ asks' = [asks EXCEPT ![r] = Nil]
      /\ now' = [now EXCEPT ![r] = 0] /\ units' = [units EXCEPT ![r] = 0]
      /\ bucket' = [bucket EXCEPT ![k][a] = charged]
      /\ level' = [level EXCEPT ![k][a] = @ + n]
      /\ slip' = slip + (clock - t)
      /\ UNCHANGED <<config, server, filter, htpasswd, clock, stops, orphans, route, from,
                     lastGC, spooled, vetted, stored>>
  BY <1>1 DEF Granted, Goto, StopAsking, processVars, scanVars, TypeOK
<1>3. /\ at' \in [Requests -> Place] /\ at'[r] = p
      /\ \A q \in Requests : q # r => /\ at'[q] = at[q] /\ asks'[q] = asks[q]
                                      /\ now'[q] = now[q]
  BY <1>2 DEF TypeOK, Place
<1>4. charged \in Buckets /\ charged.tokens = TokensAt(k, b, t) - n /\ charged.last = t
      /\ charged.seen = b.seen /\ charged # Nil /\ charged.tokens <= Burst[k]
  <2>1. TokensAt(k, b, t) - n \in Nat /\ TokensAt(k, b, t) - n <= Burst[k] /\ t \in Int
    BY <1>1
  <2>2. b \in [tokens : Nat, last : Int, seen : Nat]
    BY <1>1 DEF Buckets
  <2>3. charged \in [tokens : Nat, last : Int, seen : Nat]
        /\ charged.tokens = TokensAt(k, b, t) - n /\ charged.last = t /\ charged.seen = b.seen
    BY <2>1, <2>2
  <2>. QED BY <2>1, <2>3 DEF Buckets
<1>5. /\ bucket' \in [Kinds -> [Callers -> Buckets \cup {Nil}]]
      /\ bucket'[k][a] = charged /\ level'[k][a] = level[k][a] + n
      /\ level' \in [Kinds -> [Callers -> Nat]]
      /\ \A j \in Kinds, x \in Callers : j # k \/ x # a =>
             bucket'[j][x] = bucket[j][x] /\ level'[j][x] = level[j][x]
  <2>1. bucket \in [Kinds -> [Callers -> Buckets \cup {Nil}]]
        /\ level \in [Kinds -> [Callers -> Nat]]
    BY DEF TypeOK
  <2>2. level[k][a] + n \in Nat
    BY <1>1, <2>1
  <2>. QED BY <1>1, <1>2, <1>4, <2>1, <2>2
<1>6. TypeOK'
  <2>1. \A j \in Kinds, x \in Callers :
            bucket'[j][x] # Nil => bucket'[j][x].tokens <= Burst[j]
    <3>. SUFFICES ASSUME NEW j \in Kinds, NEW x \in Callers, bucket'[j][x] # Nil
                  PROVE  bucket'[j][x].tokens <= Burst[j]
      OBVIOUS
    <3>1. CASE j = k /\ x = a
      BY <1>4, <1>5, <3>1
    <3>2. CASE j # k \/ x # a
      BY <1>5, <3>2 DEF TypeOK
    <3>. QED BY <3>1, <3>2
  <2>2. slip' \in Nat
    BY <1>1, <1>2 DEF TypeOK
  <2>3. asks' \in [Requests -> Kinds \cup {Nil}]
    BY <1>2 DEF TypeOK
  <2>4. now' \in [Requests -> 0..MaxClock]
    BY <1>2 DEF TypeOK
  <2>5. units' \in [Requests -> Nat]
    BY <1>2 DEF TypeOK
  <2>. QED BY <1>2, <1>3, <1>5, <2>1, <2>2, <2>3, <2>4, <2>5 DEF TypeOK
<1>7. AskersReady'
  BY <1>1, <1>2, <1>3 DEF LimitInv, AskersReady, Asking
<1>8. HeldBuckets'
  <2>. SUFFICES ASSUME NEW q \in Requests, at'[q] = "charging"
                PROVE  /\ bucket'[asks'[q]][from'[q]] # Nil
                       /\ now'[q] - bucket'[asks'[q]][from'[q]].seen <= MaxLate
    BY DEF HeldBuckets
  <2>1. q # r
    BY <1>3
  <2>2. /\ asks[q] \in Kinds /\ from[q] \in Callers
        /\ bucket[asks[q]][from[q]] # Nil
        /\ now[q] - bucket[asks[q]][from[q]].seen <= MaxLate
        /\ asks'[q] = asks[q] /\ from'[q] = from[q] /\ now'[q] = now[q]
    BY <1>2, <1>3, <2>1 DEF LimitInv, AskersReady, HeldBuckets, Asking
  <2>3. CASE asks[q] = k /\ from[q] = a
    <3>1. bucket'[asks'[q]][from'[q]] = charged
      BY <1>5, <2>2, <2>3
    <3>. QED BY <1>4, <2>2, <2>3, <3>1
  <2>4. CASE asks[q] # k \/ from[q] # a
    BY <1>5, <2>2, <2>4
  <2>. QED BY <2>3, <2>4
<1>9. MeterInv'
  <2>. SUFFICES ASSUME NEW j \in Kinds, NEW x \in Callers
                PROVE  Metered(j, x)'
    BY DEF MeterInv
  <2>0. Metered(j, x) /\ level[j][x] \in Nat /\ slip \in Nat /\ slip' \in Nat
        /\ slip <= slip' /\ Burst[j] \in Nat /\ clock' = clock
    BY <1>1, <1>2, <1>6 DEF LimitInv, MeterInv, TypeOK
  <2>1. CASE j = k /\ x = a
    <3>1. Times(j, x)' \subseteq Times(j, x)
      <4>1. t \in Times(j, x)
        BY <1>1, <2>1 DEF Times, Charging
      <4>2. \A q \in Requests : Charging(q, j, x)' => Charging(q, j, x) /\ now'[q] = now[q]
        BY <1>2, <1>3 DEF Charging
      <4>3. bucket'[j][x].last = t
        BY <1>4, <1>5, <2>1
      <4>. HIDE DEF t, charged
      <4>. QED BY <4>1, <4>2, <4>3 DEF Times
    <3>2. /\ TokensAt(k, b, clock) \in Nat /\ TokensAt(k, b, t) <= TokensAt(k, b, clock)
          /\ TokensAt(k, charged, clock) \in Nat
          /\ TokensAt(k, charged, clock) <= TokensAt(k, charged, t) + (clock - t)
      BY <1>1, <1>4, TokensType, TokensGrow
    <3>3. TokensAt(k, charged, t) = TokensAt(k, b, t) - n
      BY <1>1, <1>4 DEF TokensAt, Least, Max0
    <3>4. level'[k][a] + TokensAt(k, charged, clock)
              <= level[k][a] + TokensAt(k, b, clock) + (clock - t)
      BY <1>1, <1>5, <2>0, <2>1, <3>2, <3>3 DEF TypeOK
    <3>5. b.last \in Int /\ b.seen \in Nat /\ b.seen <= clock
      BY <1>1, <2>0, <2>1 DEF Metered, Buckets
    <3>6. \A y \in Times(j, x) : y \in Int
      BY <2>1, <3>5 DEF Times, TypeOK
    <3>7. level[k][a] + TokensAt(k, b, clock) <= Burst[k] + slip
      BY <1>1, <2>0, <2>1 DEF Metered
    <3>8. \A y \in Times(j, x) :
             /\ y - b.seen <= slip
             /\ level[k][a] + TokensAt(k, b, clock) + (y - b.seen) <= Burst[k] + slip
      BY <1>1, <2>0, <2>1 DEF Metered
    <3>9. level'[k][a] \in Nat /\ level'[k][a] + TokensAt(k, charged, clock) <= Burst[k] + slip'
      BY <1>1, <1>2, <1>5, <2>0, <2>1, <3>2, <3>4, <3>7
    <3>10. \A y \in Times(j, x)' :
             /\ y - charged.seen <= slip'
             /\ level'[k][a] + TokensAt(k, charged, clock) + (y - charged.seen)
                    <= Burst[k] + slip'
      <4>. SUFFICES ASSUME NEW y \in Times(j, x)'
                    PROVE  /\ y - charged.seen <= slip'
                           /\ level'[k][a] + TokensAt(k, charged, clock) + (y - charged.seen)
                                  <= Burst[k] + slip'
        OBVIOUS
      <4>1. /\ y \in Int /\ y - b.seen <= slip
            /\ level[k][a] + TokensAt(k, b, clock) + (y - b.seen) <= Burst[k] + slip
        BY <3>1, <3>6, <3>8
      <4>2. slip' = slip + (clock - t) /\ charged.seen = b.seen
        BY <1>2, <1>4
      <4>3. level[k][a] \in Nat
        BY <2>0, <2>1
      <4>. HIDE DEF charged, b, n, t, k, a
      <4>. QED BY <1>1, <2>0, <3>2, <3>4, <3>5, <3>9, <4>1, <4>2, <4>3
    <3>. QED BY <1>1, <1>4, <1>5, <2>0, <2>1, <3>5, <3>9, <3>10 DEF Metered, TokensAt
  <2>2. CASE j # k \/ x # a
    <3>0. bucket'[j][x] = bucket[j][x] /\ level'[j][x] = level[j][x]
      BY <1>5, <2>2
    <3>1. Times(j, x)' \subseteq Times(j, x)
      <4>1. \A q \in Requests : Charging(q, j, x)' => Charging(q, j, x) /\ now'[q] = now[q]
        BY <1>2, <1>3 DEF Charging
      <4>. QED BY <3>0, <4>1 DEF Times
    <3>2. CASE bucket[j][x] = Nil
      BY <2>0, <3>0, <3>2 DEF Metered
    <3>3. CASE bucket[j][x] # Nil
      <4>1. bucket[j][x] \in Buckets /\ TokensAt(j, bucket[j][x], clock) \in Nat
            /\ bucket[j][x].last \in Int /\ bucket[j][x].seen \in Nat
        BY <1>1, <3>3, TokensType DEF TypeOK, Buckets
      <4>2. \A y \in Times(j, x) : y \in Int
        BY <4>1 DEF Times, TypeOK
      <4>. QED BY <2>0, <3>0, <3>1, <3>3, <4>1, <4>2 DEF Metered, TokensAt
    <3>. QED BY <3>2, <3>3
  <2>. QED BY <2>1, <2>2
<1>10. ScanInv'
  <2>1. NotSpooledYet'
    <3>1. at'[r] = "begun" => r \notin spooled
      BY <1>1, <1>3 DEF ScanInv, NotSpooledYet, Asking
    <3>. QED BY <1>2, <1>3, <3>1 DEF ScanInv, NotSpooledYet, Asking
  <2>2. VettedAhead'
    <3>1. config.prescan /\ at'[r] = "storing" => r \in vetted
      BY <1>1, <1>3 DEF ScanInv, VettedAhead, Asking, Kinds
    <3>. QED BY <1>2, <1>3, <3>1 DEF ScanInv, VettedAhead, Asking
  <2>. QED BY <1>2, <2>1, <2>2 DEF ScanInv, CleanStored
<1>. QED BY <1>6, <1>7, <1>8, <1>9, <1>10 DEF LimitInv

LEMMA RefusedInv == ASSUME IInv, NEW r \in Requests, Refused(r) PROVE IInv'
BY AnswerInv DEF Refused

-------------------------------------------------------------------------------
(* The handlers *)

\* A request that goes on inside its handler, without a bucket.
LEMMA InsideInv ==
    ASSUME IInv, NEW r \in Requests, NEW p \in Place, Goto(r, p),
           at[r] \in {"begun", "spooled", "dialling", "awaiting"},
           p \in {"spooled", "dialling", "awaiting", "storing"},
           UNCHANGED <<route, from, now, asks, units, processVars, limitVars, stored>>,
           spooled' \in {spooled, spooled \cup {r}}, vetted' \in {vetted, vetted \cup {r}},
           config.prescan /\ p = "storing" => r \in vetted'
    PROVE  IInv'
<1>1. LimitInv' /\ at' \in [Requests -> Place]
  BY MoveInv DEF Asking
<1>2. at'[r] = p /\ \A q \in Requests : q # r => at'[q] = at[q]
  BY DEF Goto, IInv, TypeOK
<1>3. TypeOK'
  BY <1>1 DEF IInv, TypeOK, processVars, limitVars
<1>4. NotSpooledYet'
  BY <1>2 DEF IInv, ScanInv, NotSpooledYet, Asking
<1>5. VettedAhead'
  BY <1>2 DEF IInv, ScanInv, VettedAhead, Asking, processVars
<1>6. CleanStored'
  BY DEF IInv, ScanInv, CleanStored, processVars
<1>. QED BY <1>1, <1>3, <1>4, <1>5, <1>6 DEF IInv, ScanInv

\* A vetted request, or any without the prescan, that is charged for its upload
\* or goes straight to the store.
LEMMA ChargeInv ==
    ASSUME IInv, NEW r \in Requests, ChargeUpload(r),
           at[r] \in {"begun", "spooled", "awaiting"},
           UNCHANGED <<processVars, limitVars, spooled, stored>>,
           vetted' \in {vetted, vetted \cup {r}},
           config.prescan => r \in vetted'
    PROVE  IInv'
<1>1. CASE "kilobytes" \notin config.limits /\ Goto(r, "storing") /\ localsUnchanged
  BY <1>1, InsideInv DEF Place, localsUnchanged
<1>2. ASSUME NEW n \in Costs, Ask(r, "kilobytes", n), UNCHANGED <<route, from>>
      PROVE  IInv'
  <2>0. "kilobytes" \in Kinds /\ n \in Nat
    BY DEF Kinds
  <2>1. /\ at' \in [Requests -> Place] /\ now' \in [Requests -> 0..MaxClock]
        /\ units' \in [Requests -> Nat] /\ asks' \in [Requests -> Kinds \cup {Nil}]
    BY <1>2, <2>0, AskType DEF IInv
  <2>2. at'[r] = "asking" /\ asks'[r] = "kilobytes" /\ now'[r] = clock
    BY <1>2 DEF IInv, Ask, Goto, TypeOK
  <2>3. \A q \in Requests : q # r => at'[q] = at[q] /\ asks'[q] = asks[q] /\ now'[q] = now[q]
    BY <1>2 DEF IInv, Ask, Goto, TypeOK
  <2>4. TypeOK'
    BY <1>2, <2>1 DEF IInv, TypeOK, processVars, limitVars
  <2>5. from[r] \in Callers
    BY DEF IInv, LimitInv, AskersReady
  <2>6. LimitInv'
    <3>1. \A q \in Requests : at'[q] # "idle" => from'[q] \in Callers
      BY <1>2, <2>3, <2>5 DEF IInv, LimitInv, AskersReady
    <3>. QED BY <1>2, <2>0, <2>2, <2>3, <3>1, Quiet
             DEF IInv, Asking, processVars, limitVars
  <2>7. ScanInv'
    BY <2>2, <2>3
       DEF IInv, ScanInv, NotSpooledYet, VettedAhead, CleanStored, Asking, processVars
  <2>. QED BY <2>4, <2>6, <2>7 DEF IInv
<1>. QED BY <1>1, <1>2 DEF ChargeUpload

LEMMA HandlerInv ==
    ASSUME IInv, NEW r \in Requests, Handle(r) \/ Dial(r) \/ Verdict(r)
    PROVE  IInv'
<1>. USE DEF Place, handlerUnchanged, localsUnchanged, scanVars
<1>1. CASE Lookup(r)
  BY <1>1, LookupInv
<1>2. CASE Granted(r)
  BY <1>2, GrantedInv
<1>3. CASE Refused(r)
  BY <1>3, RefusedInv
<1>4. CASE Spool(r)
  BY <1>4, InsideInv DEF Spool
<1>5. CASE Return(r)
  BY <1>5, AnswerInv DEF Return
<1>6. CASE SkipScan(r)
  BY <1>6, ChargeInv DEF SkipScan
<1>7. CASE StartScan(r)
  BY <1>7, InsideInv DEF StartScan
<1>8. CASE ScanTimeout(r)
  BY <1>8, AnswerInv DEF ScanTimeout
<1>9. CASE Store(r)
  <2>1. at[r] = "storing" /\ Finish(r) /\ UNCHANGED <<processVars, limitVars>>
        /\ stored' = stored \cup {r \in vetted}
    BY <1>9 DEF Store
  <2>2. stored' \subseteq BOOLEAN
    BY <2>1 DEF IInv, TypeOK
  <2>3. TypeOK'
    BY <2>1, <2>2, FinishType DEF IInv, TypeOK, processVars, limitVars
  <2>4. LimitInv' /\ NotSpooledYet' /\ VettedAhead'
    BY <2>1, FinishInv DEF processVars, limitVars
  <2>5. CleanStored'
    BY <2>1 DEF IInv, ScanInv, VettedAhead, CleanStored, processVars
  <2>. QED BY <2>3, <2>4, <2>5 DEF IInv, ScanInv
<1>10. CASE Connected(r)
  BY <1>10, InsideInv DEF Connected
<1>11. CASE DialFails(r)
  BY <1>11, AnswerInv DEF DialFails
<1>12. CASE VerdictOK(r)
  <2>1. CASE Finish(r) /\ UNCHANGED stored
    BY <1>12, <2>1, AnswerInv DEF VerdictOK
  <2>2. CASE vetted' = vetted \cup {r} /\ ChargeUpload(r) /\ UNCHANGED <<spooled, stored>>
    BY <1>12, <2>2, ChargeInv DEF VerdictOK
  <2>. QED BY <1>12, <2>1, <2>2 DEF VerdictOK
<1>13. CASE NotOK(r)
  BY <1>13, AnswerInv DEF NotOK
<1>. QED BY <1>1, <1>2, <1>3, <1>4, <1>5, <1>6, <1>7, <1>8, <1>9, <1>10, <1>11, <1>12, <1>13
         DEF Handle, Dial, Verdict

-------------------------------------------------------------------------------
(* The process and the clock *)

\* Steps of the process that leave its requests alone.
LEMMA ProcessInv ==
    ASSUME IInv, server' \in {"starting", "serving", "draining", "stopped"},
           htpasswd' \in BOOLEAN,
           UNCHANGED <<config, clock, stops, orphans, requestVars, limitVars, spooled, scanVars>>
    PROVE  IInv'
<1>. USE DEF IInv, requestVars, limitVars, scanVars
<1>1. TypeOK'
  BY DEF TypeOK
<1>2. LimitInv'
  <2>1. \A q \in Requests : at'[q] # "idle" => from'[q] \in Callers
    BY DEF LimitInv, AskersReady
  <2>. QED BY <2>1, Quiet DEF Asking
<1>3. ScanInv'
  BY DEF ScanInv, NotSpooledYet, VettedAhead, CleanStored, Asking
<1>. QED BY <1>1, <1>2, <1>3

LEMMA StopInv == ASSUME IInv, Stop PROVE IInv'
<1>. USE DEF IInv, Stop
<1>1. TypeOK'
  <2>1. Cardinality(spooled) \in Nat
    BY FS_Subset, FS_CardinalityType DEF TypeOK
  <2>2. "idle" \in Place /\ 0 \in 0..MaxClock /\ clock \in 0..MaxClock
    BY DEF Place, TypeOK
  <2>3. /\ at' \in [Requests -> Place] /\ route' \in [Requests -> Routes \cup {Nil}]
        /\ from' \in [Requests -> Callers \cup {Nil}]
        /\ now' \in [Requests -> 0..MaxClock] /\ units' \in [Requests -> Nat]
        /\ asks' \in [Requests -> Kinds \cup {Nil}]
    BY <2>2
  <2>4. /\ bucket' \in [Kinds -> [Callers -> Buckets \cup {Nil}]]
        /\ \A k \in Kinds, a \in Callers : bucket'[k][a] = Nil
        /\ level' \in [Kinds -> [Callers -> Nat]]
    OBVIOUS
  <2>5. lastGC' \in [Kinds -> 0..MaxClock] /\ orphans' \in Nat /\ stops' \in Nat
    BY <2>1, <2>2 DEF TypeOK
  <2>6. UNCHANGED <<config, clock, stored>> /\ server' = "stopped" /\ htpasswd' = FALSE
        /\ slip' = 0 /\ spooled' = {} /\ vetted' = {}
    OBVIOUS
  <2>. HIDE DEF Stop
  <2>. QED BY <2>3, <2>4, <2>5, <2>6 DEF TypeOK
<1>2. LimitInv'
  <2>1. AskersReady' /\ HeldBuckets'
    BY DEF AskersReady, HeldBuckets, Asking
  <2>2. MeterInv'
    BY DEF MeterInv, Metered
  <2>. QED BY <2>1, <2>2 DEF LimitInv
<1>3. ScanInv'
  BY DEF ScanInv, NotSpooledYet, VettedAhead, CleanStored, Asking
<1>. QED BY <1>1, <1>2, <1>3

\* A bucket gains what the meter loses; when the meter is at zero, a full bucket
\* is all it has to make room for.
LEMMA TickInv == ASSUME IInv, Tick PROVE IInv'
<1>. USE DEF IInv
<1>1. /\ clock \in Nat /\ clock' = clock + 1 /\ clock < MaxClock
      /\ UNCHANGED <<config, server, htpasswd, stops, orphans, at, route, from, now, asks,
                     units, bucket, lastGC, slip, spooled, vetted, stored>>
      /\ \A r \in Requests : Asking(r) => clock' - now[r] <= MaxLate
  BY DEF Tick, TypeOK, requestVars, scanVars, Asking
<1>2. level' \in [Kinds -> [Callers -> Nat]]
      /\ \A k \in Kinds, a \in Callers : level'[k][a] = Max0(level[k][a] - 1)
  BY DEF Tick, TypeOK, Max0
<1>3. TypeOK'
  BY <1>1, <1>2 DEF TypeOK
<1>4. AskersReady'
  BY <1>1 DEF LimitInv, AskersReady, Asking, TypeOK
<1>5. HeldBuckets'
  BY <1>1 DEF LimitInv, HeldBuckets
<1>6. MeterInv'
  <2>. SUFFICES ASSUME NEW k \in Kinds, NEW a \in Callers
                PROVE  Metered(k, a)'
    BY DEF MeterInv
  <2>. DEFINE b == bucket[k][a]
  <2>0. /\ Metered(k, a) /\ level[k][a] \in Nat /\ level'[k][a] \in Nat /\ slip \in Nat
        /\ Burst[k] \in Nat /\ level'[k][a] <= level[k][a]
        /\ level'[k][a] = 0 \/ level'[k][a] = level[k][a] - 1
    BY <1>1, <1>2 DEF LimitInv, MeterInv, TypeOK, Max0
  <2>1. CASE b = Nil
    BY <1>1, <2>0, <2>1 DEF Metered
  <2>2. CASE b # Nil
    <3>1. b \in Buckets /\ b.last \in Int /\ b.seen \in Nat
      BY <2>2 DEF TypeOK, Buckets
    <3>2. /\ TokensAt(k, b, clock) \in Nat /\ TokensAt(k, b, clock') \in Nat
          /\ TokensAt(k, b, clock') <= TokensAt(k, b, clock) + 1
          /\ TokensAt(k, b, clock') <= Burst[k]
      <4>1. clock' - clock = 1 /\ clock <= clock' /\ clock \in Int /\ clock' \in Int
        BY <1>1
      <4>. HIDE DEF b
      <4>2. TokensAt(k, b, clock') <= TokensAt(k, b, clock) + (clock' - clock)
        BY <3>1, <4>1, TokensGrow
      <4>. QED BY <3>1, <4>1, <4>2, TokensType
    <3>3. Times(k, a)' = Times(k, a) /\ \A y \in Times(k, a) : y \in Int
      BY <1>1, <3>1 DEF Times, Charging, TypeOK
    <3>4. level'[k][a] + TokensAt(k, b, clock') <= Burst[k] + slip
      BY <2>0, <2>2, <3>2 DEF Metered
    <3>5. \A y \in Times(k, a) :
              level'[k][a] + TokensAt(k, b, clock') + (y - b.seen) <= Burst[k] + slip
      BY <2>0, <2>2, <3>1, <3>2, <3>3 DEF Metered
    <3>. QED BY <1>1, <2>0, <2>2, <3>1, <3>3, <3>4, <3>5 DEF Metered, TokensAt
  <2>. QED BY <2>1, <2>2
<1>7. ScanInv'
  BY <1>1 DEF ScanInv, NotSpooledYet, VettedAhead, CleanStored, Asking
<1>. QED BY <1>3, <1>4, <1>5, <1>6, <1>7 DEF LimitInv

-------------------------------------------------------------------------------
(* The invariant and what follows from it *)

LEMMA InitInv == Init => IInv
<1>. SUFFICES ASSUME Init PROVE IInv
  OBVIOUS
<1>1. TypeOK
  <2>1. "idle" \in Place /\ 0 \in 0..MaxClock
    BY DEF Place
  <2>2. /\ at \in [Requests -> Place] /\ route \in [Requests -> Routes \cup {Nil}]
        /\ from \in [Requests -> Callers \cup {Nil}]
        /\ now \in [Requests -> 0..MaxClock] /\ units \in [Requests -> Nat]
        /\ asks \in [Requests -> Kinds \cup {Nil}]
    BY <2>1 DEF Init
  <2>3. /\ bucket \in [Kinds -> [Callers -> Buckets \cup {Nil}]]
        /\ \A k \in Kinds, a \in Callers : bucket[k][a] = Nil
        /\ level \in [Kinds -> [Callers -> Nat]]
        /\ lastGC \in [Kinds -> 0..MaxClock]
    BY <2>1 DEF Init
  <2>4. /\ config \in Configs /\ server = "starting" /\ htpasswd = FALSE
        /\ spooled = {} /\ orphans = 0 /\ clock = 0 /\ stops = 0 /\ slip = 0
        /\ vetted = {} /\ stored = {}
    BY DEF Init
  <2>. QED BY <2>1, <2>2, <2>3, <2>4 DEF TypeOK
<1>2. LimitInv
  BY DEF Init, LimitInv, AskersReady, HeldBuckets, MeterInv, Metered, Asking
<1>3. ScanInv
  BY DEF Init, ScanInv, NotSpooledYet, VettedAhead, CleanStored, Asking
<1>. QED BY <1>1, <1>2, <1>3 DEF IInv

LEMMA StepInv == IInv /\ [Next]_vars => IInv'
<1>. SUFFICES ASSUME IInv, [Next]_vars PROVE IInv'
  OBVIOUS
<1>1. ASSUME NEW r \in Requests, Handle(r) \/ Dial(r) \/ Verdict(r) PROVE IInv'
  BY <1>1, HandlerInv
<1>2. ASSUME NEW r \in Requests, NEW rt \in Routes, NEW ip \in Callers, NEW c,
             Arrive(r, rt, ip, c)
      PROVE  IInv'
  BY <1>2, ArriveInv
<1>3. CASE LoadHtpasswd
  BY <1>3, ProcessInv DEF LoadHtpasswd, IInv, TypeOK
<1>4. CASE Serve
  BY <1>4, ProcessInv DEF Serve, IInv, TypeOK
<1>5. CASE Signal
  BY <1>5, ProcessInv DEF Signal, IInv, TypeOK
<1>6. CASE Drained
  BY <1>6, StopInv DEF Drained
<1>7. CASE ForcedStop
  BY <1>7, StopInv DEF ForcedStop
<1>8. CASE Restart
  BY <1>8, ProcessInv DEF Restart, IInv, TypeOK
<1>9. CASE Tick
  BY <1>9, TickInv
<1>10. CASE UNCHANGED vars
  BY <1>10, ProcessInv DEF vars, requestVars, limitVars, scanVars, IInv, TypeOK
<1>. QED BY <1>1, <1>2, <1>3, <1>4, <1>5, <1>6, <1>7, <1>8, <1>9, <1>10 DEF Next

LEMMA InvHolds == Spec => []IInv
BY InitInv, StepInv, PTL DEF Spec

\* Requests, limiters, spool and process keep their types.
THEOREM TypeCorrect == Spec => []TypeOK
<1>1. IInv => TypeOK
  BY DEF IInv
<1>. QED BY <1>1, InvHolds, PTL

\* ipRateLimiter: an address is granted no more than its burst and its rate allow,
\* but for the time by which requests were late to use the clock they had read;
\* eviction hands out no fresh burst.
THEOREM RateIsBounded == Spec => []RateBounded
<1>1. IInv => RateBounded
  <2>. SUFFICES ASSUME IInv, NEW k \in Kinds, NEW a \in Callers
                PROVE  level[k][a] <= Burst[k] + slip
    BY DEF RateBounded
  <2>1. Metered(k, a) /\ level[k][a] \in Nat /\ slip \in Nat /\ Burst[k] \in Nat /\ clock \in Int
    BY DEF IInv, LimitInv, MeterInv, TypeOK
  <2>2. bucket[k][a] # Nil => TokensAt(k, bucket[k][a], clock) \in Nat
    BY <2>1, TokensType DEF IInv, TypeOK
  <2>. QED BY <2>1, <2>2 DEF Metered
<1>. QED BY <1>1, InvHolds, PTL

\* putHandler and scanHandler: on no way through the scan, its timeout, a refused
\* connection or a panic is anything stored unscanned or a spool file left behind.
THEOREM ScanningIsSafe == Spec => []ScanIsSafe
<1>1. IInv => ScanIsSafe
  <2>1. ASSUME IInv PROVE SpoolOwned
    BY <2>1 DEF IInv, TypeOK, Place, ScanInv, NotSpooledYet, SpoolOwned
  <2>. QED BY <2>1 DEF IInv, ScanInv, ScanIsSafe
<1>. QED BY <1>1, InvHolds, PTL

-------------------------------------------------------------------------------
(* The filter in force *)

\* Serve builds the filter of the configuration in force.
FilterBuilt == server = "serving" => filter = BuildFilter(config.ipFilter)

FilterInv == config \in Configs /\ FilterBuilt

LEMMA FilterStep == FilterInv /\ [Next]_vars => FilterInv'
<1>. SUFFICES ASSUME FilterInv, [Next]_vars PROVE FilterInv'
  OBVIOUS
<1>1. CASE Serve
  BY <1>1 DEF Serve, FilterInv, FilterBuilt
<1>2. CASE UNCHANGED <<config, server, filter>>
  BY <1>2 DEF FilterInv, FilterBuilt
<1>3. CASE config' = config /\ server' # "serving"
  BY <1>3 DEF FilterInv, FilterBuilt
<1>4. ASSUME NEW r \in Requests, Handle(r) \/ Dial(r) \/ Verdict(r)
      PROVE  UNCHANGED <<config, server, filter>>
  BY <1>4 DEF Handle, Dial, Verdict, Lookup, Granted, Refused, Spool, Return, SkipScan,
              StartScan, ScanTimeout, Store, Connected, DialFails, VerdictOK, NotOK,
              handlerUnchanged, processVars
<1>5. ASSUME NEW r \in Requests, NEW rt \in Routes, NEW ip \in Callers, NEW c,
             Arrive(r, rt, ip, c)
      PROVE  UNCHANGED <<config, server, filter>>
  BY <1>5 DEF Arrive
<1>6. CASE LoadHtpasswd \/ Tick \/ UNCHANGED vars
  BY <1>2, <1>6 DEF LoadHtpasswd, Tick, vars
<1>7. CASE Signal \/ Drained \/ ForcedStop \/ Restart
  BY <1>3, <1>7 DEF Signal, Drained, ForcedStop, Restart, Stop
<1>. QED BY <1>1, <1>2, <1>4, <1>5, <1>6, <1>7 DEF Next

\* newIPFilter and ipFilter.NetAllowed: whatever the two lists hold, and in whatever
\* order, the filter in force decides what they mean.
THEOREM FilterIsRight == Spec => []FilterDecides
<1>1. Init => FilterInv
  BY DEF Init, FilterInv, FilterBuilt
<1>2. FilterInv => FilterDecides
  <2>. SUFFICES ASSUME FilterInv, server = "serving", config.ipFilter # NoFilter,
                       NEW ip \in Addresses \cup {Unparsed}
                PROVE  PassesFilter(filter, ip) <=> Meant(config.ipFilter, ip)
    BY DEF FilterDecides
  <2>1. config.ipFilter \in Options /\ filter = NewFilter(config.ipFilter)
    BY EdgeConfigs DEF FilterInv, FilterBuilt, BuildFilter
  <2>2. filter # NoFilter
    BY <2>1, NewFilterLists, AccessNoFilter
  <2>. QED BY <2>1, <2>2, FilterMeans DEF PassesFilter
<1>. QED BY <1>1, <1>2, FilterStep, PTL DEF Spec
===============================================================================
