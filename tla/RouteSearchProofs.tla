--------------------------- MODULE RouteSearchProofs ---------------------------
(* Proofs, for networks of any number of searchable routes, that Search       *)
(* returns the best journey (graph.go), and lemmas about the rides that a     *)
(* route offers.                                                              *)
EXTENDS RouteSearch, Inductions, TLAPS

(* The legs of a route: a sequence, searchable, with fares that are integers. *)
Walkable(legs) ==
    /\ legs \in Seq(ToSet(legs))
    /\ \A i \in DOMAIN legs : legs[i].fare \in Int
    /\ Searchable(legs)

(* The stops along a route (routeStopOrder): where the first leg starts, and  *)
(* where each leg ends.                                                       *)
LEMMA StopsAlong ==
    ASSUME NEW legs, legs \in Seq(ToSet(legs)), legs # <<>>
    PROVE  LET s == stopsOf(legs)
           IN  /\ Len(legs) \in Nat \ {0} /\ DOMAIN legs = 1 .. Len(legs)
               /\ s \in Seq(ToSet(s)) /\ Len(s) = Len(legs) + 1 /\ DOMAIN s = 1 .. Len(s)
               /\ s[1] = legs[1].from
               /\ \A i \in 1 .. Len(legs) : s[i + 1] = legs[i].to
<1> DEFINE S == {legs[1].from} \cup {legs[i].to : i \in DOMAIN legs}
<1> DEFINE rest == [i \in DOMAIN legs |-> legs[i].to]
<1> DEFINE s == stopsOf(legs)
<1>1. Len(legs) \in Nat \ {0} /\ DOMAIN legs = 1 .. Len(legs)
  OBVIOUS
<1>2. rest \in Seq(S) /\ Len(rest) = Len(legs)
  <2>1. rest \in [1 .. Len(legs) -> S]
    BY <1>1
  <2> QED
    BY <1>1, <2>1
<1>3. <<legs[1].from>> \in Seq(S) /\ Len(<<legs[1].from>>) = 1
  OBVIOUS
<1>4. s = <<legs[1].from>> \o rest
  BY DEF stopsOf
<1>5. s \in Seq(S) /\ Len(s) = Len(legs) + 1 /\ s[1] = legs[1].from
  <2> HIDE DEF rest, S, s
  <2> QED
    BY <1>1, <1>2, <1>3, <1>4
<1>6. ASSUME NEW i \in 1 .. Len(legs) PROVE s[i + 1] = legs[i].to
  <2>1. s[i + 1] = rest[i]
    <3> HIDE DEF rest, S, s
    <3> QED
      BY <1>1, <1>2, <1>3, <1>4
  <2> QED
    BY <1>1, <2>1
<1>7. s \in Seq(ToSet(s)) /\ DOMAIN s = 1 .. Len(s)
  <2>1. s \in [1 .. Len(s) -> ToSet(s)] /\ Len(s) \in Nat
    BY <1>5 DEF ToSet
  <2> QED
    BY <2>1
<1> QED
  BY <1>1, <1>5, <1>6, <1>7

(* The largest and the smallest of a finite set of integers.                  *)
LEMMA MinMax ==
    ASSUME NEW S, IsFiniteSet(S), S # {}, S \subseteq Int
    PROVE  /\ Min(S) \in S /\ \A x \in S : Min(S) <= x
           /\ Max(S) \in S /\ \A x \in S : x <= Max(S)
<1>1. PICK f : f = [x \in S |-> x]
  OBVIOUS
<1>2. PICK g : g = [x \in S |-> -x]
  OBVIOUS
<1>3. \E m \in S : \A x \in S : f[m] <= f[x]
  BY <1>1, LeastValue
<1>4. \E m \in S : \A x \in S : g[m] <= g[x]
  <2>1. \A x \in S : g[x] \in Int
    BY <1>2
  <2> QED
    BY <2>1, LeastValue
<1>5. \E m \in S : \A x \in S : m =< x
  BY <1>1, <1>3
<1>6. \E m \in S : \A x \in S : m >= x
  BY <1>2, <1>4
<1> QED
  BY <1>5, <1>6 DEF Min, Max

(* The position of a stop is where it is visited last, or zero.               *)
LEMMA PositionIs ==
    ASSUME NEW legs, legs \in Seq(ToSet(legs)), NEW x
    PROVE  LET s == stopsOf(legs)
               p == position(legs, x)
           IN  /\ p \in 0 .. Len(s)
               /\ 0 < p => s[p] = x
               /\ \A i \in 1 .. Len(s) : s[i] = x => 0 < p /\ i <= p
<1> DEFINE s == stopsOf(legs)
<1> DEFINE I == {i \in 1 .. Len(s) : s[i] = x}
<1>1. position(legs, x) = IF I # {} THEN Max(I) ELSE 0
  BY DEF position, SelectLastInSeq
<1>2. Len(s) \in Nat
  <2>1. CASE legs = <<>>
    <3>1. s = <<>>
      BY <2>1 DEF stopsOf
    <3> QED
      BY <3>1
  <2> QED
    BY <2>1, StopsAlong
<1>3. IsFiniteSet(I) /\ I \subseteq Int
  <2>1. IsFiniteSet(1 .. Len(s)) /\ I \subseteq 1 .. Len(s)
    BY <1>2, FS_Interval
  <2> QED
    BY <2>1, <1>2, FS_Subset
<1>4. I # {} => Max(I) \in I /\ \A i \in I : i <= Max(I)
  BY <1>3, MinMax
<1>5. CASE I = {}
  BY <1>1, <1>2, <1>5
<1>6. CASE I # {}
  <2>1. position(legs, x) \in I /\ \A i \in I : i <= position(legs, x)
    BY <1>1, <1>4, <1>6
  <2> QED
    BY <1>2, <2>1
<1> QED
  BY <1>5, <1>6

(* The first and the last element of a stretch of a sequence.                 *)
LEMMA Stretch ==
    ASSUME NEW S, NEW q \in Seq(S), NEW i \in 1 .. Len(q), NEW j \in 1 .. Len(q),
           NEW t, t = SubSeq(q, i, j)
    PROVE  /\ t # <<>> <=> i <= j
           /\ i <= j => t[1] = q[i] /\ t[Len(t)] = q[j] /\ Len(t) = j - i + 1
           /\ t \in Seq(S) /\ \A k \in 1 .. Len(t) : t[k] = q[i + k - 1]
<1>1. t \in Seq(S) /\ Len(t) = IF i <= j THEN j - i + 1 ELSE 0
  OBVIOUS
<1>2. \A k \in 1 .. Len(t) : t[k] = q[i + k - 1]
  OBVIOUS
<1>3. t # <<>> <=> i <= j
  BY <1>1
<1>4. ASSUME i <= j PROVE t[1] = q[i] /\ t[Len(t)] = q[j] /\ Len(t) = j - i + 1
  <2>1. i + 1 - 1 = i /\ i + (j - i + 1) - 1 = j /\ 1 \in 1 .. Len(t) /\ Len(t) = j - i + 1
    BY <1>1, <1>4
  <2> QED
    BY <1>2, <2>1
<1> QED
  BY <1>1, <1>2, <1>3, <1>4

(* On a simple route every stop has one position.                             *)
LEMMA PositionOf ==
    ASSUME NEW legs, legs \in Seq(ToSet(legs)), legs # <<>>, Simple(legs)
    PROVE  LET s == stopsOf(legs)
           IN  /\ \A i \in 1 .. Len(s) : position(legs, s[i]) = i
               /\ \A i \in 1 .. Len(legs) : s[i] = legs[i].from
<1> DEFINE s == stopsOf(legs)
<1>1. /\ Len(s) \in Nat /\ Len(legs) \in Nat \ {0} /\ Len(s) = Len(legs) + 1
      /\ DOMAIN s = 1 .. Len(s) /\ s[1] = legs[1].from
      /\ \A i \in 1 .. Len(legs) : s[i + 1] = legs[i].to
  BY StopsAlong
<1>2. ASSUME NEW i \in 1 .. Len(s) PROVE position(legs, s[i]) = i
  <2>1. PICK p : p = position(legs, s[i])
    OBVIOUS
  <2>2. p \in 1 .. Len(s) /\ s[p] = s[i]
    BY <1>1, <2>1, PositionIs
  <2> QED
    BY <1>1, <2>1, <2>2 DEF Simple, IsInjective
<1>3. ASSUME NEW i \in 1 .. Len(legs) PROVE s[i] = legs[i].from
  <2>1. CASE i = 1
    BY <1>1, <2>1
  <2>2. CASE i # 1
    <3>1. i - 1 \in 1 .. Len(legs) - 1 /\ i - 1 \in 1 .. Len(legs) /\ (i - 1) + 1 = i
      BY <1>1, <2>2
    <3>2. s[i] = legs[i - 1].to /\ legs[i - 1].to = legs[i].from
      BY <1>1, <3>1 DEF Simple
    <3> QED
      BY <3>2
  <2> QED
    BY <2>1, <2>2
<1> QED
  BY <1>2, <1>3

(* So there is one stretch from a stop to a later one: the direct segment.    *)
LEMMA OneStretch ==
    ASSUME NEW r, r.legs \in Seq(ToSet(r.legs)), Searchable(r.legs), NEW o, NEW d, o # d
    PROVE  Stretches(r, o, d) = IF Rides(r, o, d) THEN {directSegment(r, o, d).legs} ELSE {}
<1>1. PICK legs : legs = r.legs
  OBVIOUS
<1> DEFINE s == stopsOf(legs)
<1> DEFINE p == position(legs, o)
<1> DEFINE q == position(legs, d)
<1>2. Rides(r, o, d) <=> 0 < p /\ p < q
  BY <1>1 DEF Rides
<1>3. directSegment(r, o, d).legs = SubSeq(legs, p, q - 1)
  BY <1>1 DEF directSegment
<1>4. Stretches(r, o, d) =
          {t \in {SubSeq(legs, ij[1], ij[2]) : ij \in (DOMAIN legs) \X (DOMAIN legs)} :
              t # <<>> /\ t[1].from = o /\ Last(t).to = d}
  BY <1>1 DEF Stretches
<1>5. legs \in Seq(ToSet(legs)) /\ Searchable(legs)
  BY <1>1
<1>p. /\ p \in 0 .. Len(s) /\ (0 < p => s[p] = o)
      /\ q \in 0 .. Len(s) /\ (0 < q => s[q] = d)
      /\ \A i \in 1 .. Len(s) : /\ s[i] = o => 0 < p /\ i <= p
                                /\ s[i] = d => 0 < q /\ i <= q
  BY <1>5, PositionIs
<1>6. ASSUME NEW i \in DOMAIN legs, NEW j \in DOMAIN legs, SubSeq(legs, i, j) # <<>>
      PROVE  i <= j /\ SubSeq(legs, i, j)[1] = legs[i] /\ Last(SubSeq(legs, i, j)) = legs[j]
  <2>1. PICK S, t : S = ToSet(legs) /\ t = SubSeq(legs, i, j)
    OBVIOUS
  <2>2. legs \in Seq(S) /\ i \in 1 .. Len(legs) /\ j \in 1 .. Len(legs)
    BY <1>5, <2>1
  <2>3. t # <<>> /\ i <= j
    BY <1>6, <2>1, <2>2, Stretch
  <2>4. t[1] = legs[i] /\ t[Len(t)] = legs[j]
    BY <2>1, <2>2, <2>3, Stretch
  <2> QED
    BY <2>1, <2>3, <2>4 DEF Last
<1>7. CASE legs = <<>>
  <2>1. s = <<>> /\ DOMAIN legs = {}
    BY <1>7 DEF stopsOf
  <2>2. p = 0
    BY <1>p, <2>1
  <2> HIDE DEF p
  <2> QED
    BY <1>2, <1>4, <2>1, <2>2
<1>8. CASE legs # <<>> /\ Simple(legs)
  <2>1. /\ Len(legs) \in Nat \ {0} /\ DOMAIN legs = 1 .. Len(legs) /\ Len(s) = Len(legs) + 1
        /\ \A i \in 1 .. Len(legs) : s[i + 1] = legs[i].to
    BY <1>5, <1>8, StopsAlong
  <2>2. /\ \A i \in 1 .. Len(s) : position(legs, s[i]) = i
        /\ \A i \in 1 .. Len(legs) : s[i] = legs[i].from
    BY <1>5, <1>8, PositionOf
  <2>3. ASSUME NEW t \in Stretches(r, o, d)
        PROVE  Rides(r, o, d) /\ t = SubSeq(legs, p, q - 1)
    <3>1. PICK i \in DOMAIN legs, j \in DOMAIN legs : t = SubSeq(legs, i, j)
      BY <1>4
    <3>2. t # <<>> /\ t[1].from = o /\ Last(t).to = d
      BY <1>4
    <3>3. i <= j /\ legs[i].from = o /\ legs[j].to = d
      BY <1>6, <3>1, <3>2
    <3>4. s[i] = o /\ s[j + 1] = d /\ i \in 1 .. Len(s) /\ j + 1 \in 1 .. Len(s)
      BY <2>1, <2>2, <3>3
    <3>5. p = i /\ q = j + 1
      BY <2>2, <3>4
    <3>6. q - 1 = j /\ 0 < i /\ i < j + 1
      BY <2>1, <3>3, <3>5
    <3> HIDE DEF p, q
    <3> QED
      BY <1>2, <3>1, <3>5, <3>6
  <2>4. ASSUME Rides(r, o, d)
        PROVE  SubSeq(legs, p, q - 1) \in Stretches(r, o, d)
    <3>1. /\ p \in 1 .. Len(legs) /\ q - 1 \in 1 .. Len(legs) /\ p <= q - 1
          /\ s[p] = o /\ s[q] = d
      BY <1>2, <1>p, <2>1, <2>4
    <3>2. PICK j : j = q - 1
      OBVIOUS
    <3>3. legs[p].from = o /\ legs[j].to = d
      <4>1. s[j + 1] = s[q]
        BY <1>p, <2>1, <3>1, <3>2
      <4> QED
        BY <2>1, <2>2, <3>1, <3>2, <4>1
    <3>4. SubSeq(legs, p, j) # <<>>
      <4>1. p \in 1 .. Len(legs) /\ j \in 1 .. Len(legs) /\ p <= j
        BY <3>1, <3>2
      <4> HIDE DEF p
      <4> QED
        BY <1>5, <4>1, Stretch
    <3>5. p \in DOMAIN legs /\ j \in DOMAIN legs
      BY <2>1, <3>1, <3>2
    <3> HIDE DEF p, q, s
    <3>6. SubSeq(legs, p, j)[1].from = o /\ Last(SubSeq(legs, p, j)).to = d
      BY <1>6, <3>3, <3>4, <3>5
    <3>7. SubSeq(legs, p, j) \in Stretches(r, o, d)
      <4>1. PICK ij : ij = <<p, j>>
        OBVIOUS
      <4>2. ij \in (DOMAIN legs) \X (DOMAIN legs) /\ ij[1] = p /\ ij[2] = j
        BY <3>5, <4>1
      <4> QED
        BY <1>4, <3>4, <3>6, <4>2
    <3> QED
      BY <3>2, <3>7
  <2> HIDE DEF p, q
  <2> QED
    BY <1>3, <2>3, <2>4
<1>9. CASE legs # <<>> /\ ~Simple(legs)
  <2>1. /\ Len(legs) = 1 /\ DOMAIN legs = 1 .. 1 /\ Len(s) = 2 /\ DOMAIN s = 1 .. 2
        /\ s[1] = legs[1].from /\ s[2] = legs[1].to
    <3>1. Len(legs) = 1 /\ 1 + 1 = 2 /\ 1 \in 1 .. 1
      BY <1>5, <1>9 DEF Searchable
    <3>2. /\ DOMAIN legs = 1 .. Len(legs) /\ Len(s) = Len(legs) + 1 /\ DOMAIN s = 1 .. Len(s)
          /\ s[1] = legs[1].from /\ \A i \in 1 .. Len(legs) : s[i + 1] = legs[i].to
      BY <1>5, <1>9, StopsAlong
    <3>3. s[1 + 1] = legs[1].to
      BY <3>1, <3>2
    <3> HIDE DEF s
    <3> QED
      BY <3>1, <3>2, <3>3
  <2>2. legs[1].from = legs[1].to
    BY <1>9, <2>1 DEF Simple, IsInjective
  <2>3. ~Rides(r, o, d)
    BY <1>2, <1>p, <2>1, <2>2
  <2>4. ASSUME NEW t \in Stretches(r, o, d) PROVE FALSE
    <3>1. PICK i \in DOMAIN legs, j \in DOMAIN legs : t = SubSeq(legs, i, j)
      BY <1>4
    <3>2. t # <<>> /\ t[1].from = o /\ Last(t).to = d
      BY <1>4
    <3>3. legs[i].from = o /\ legs[j].to = d /\ i = 1 /\ j = 1
      BY <1>6, <2>1, <3>1, <3>2
    <3> QED
      BY <2>2, <3>3
  <2> QED
    BY <2>3, <2>4
<1> QED
  BY <1>7, <1>8, <1>9

-----------------------------------------------------------------------------
(* The fares of a sequence add up to an integer; those of one ride are its    *)
(* fare, those of two the sum of both.                                        *)
LEMMA FaresAddUp ==
    ASSUME NEW q, q \in Seq(ToSet(q)), \A i \in DOMAIN q : q[i].fare \in Int
    PROVE  SumFares(q) \in Int
<1>1. PICK f : f = [i \in DOMAIN q |-> q[i].fare]
  OBVIOUS
<1>2. IsFiniteSet(DOMAIN q)
  <2>1. DOMAIN q = 1 .. Len(q) /\ Len(q) \in Nat
    OBVIOUS
  <2> QED
    BY <2>1, FS_Interval
<1> QED
  BY <1>1, <1>2, SumInt DEF SumFares

(* The fare of a journey of one segment ...                                   *)
LEMMA OneFare ==
    ASSUME NEW x, x.fare \in Int
    PROVE  SumFares(<<x>>) = x.fare
<1>1. PICK f : f = [i \in DOMAIN <<x>> |-> <<x>>[i].fare]
  OBVIOUS
<1>2. DOMAIN <<x>> = {1} /\ f[1] = x.fare
  BY <1>1
<1> QED
  BY <1>1, <1>2, SumOne DEF SumFares

(* ... and of two.                                                            *)
LEMMA TwoFares ==
    ASSUME NEW x, NEW y, x.fare \in Int, y.fare \in Int
    PROVE  SumFares(<<x, y>>) = x.fare + y.fare
<1>1. PICK f : f = [i \in DOMAIN <<x, y>> |-> <<x, y>>[i].fare]
  OBVIOUS
<1>2. DOMAIN <<x, y>> = {1, 2} /\ f[1] = x.fare /\ f[2] = y.fare
  BY <1>1
<1> QED
  BY <1>1, <1>2, SumTwo DEF SumFares

(* The direct segment of a route on which the search is right costs an        *)
(* integer, and is the only fare of a ride between the two stops.             *)
LEMMA OneRideFare ==
    ASSUME NEW r, Walkable(r.legs), NEW o, NEW d, o # d
    PROVE  /\ Rides(r, o, d) => directSegment(r, o, d).fare \in Int
           /\ RideFares(r, o, d) = IF Rides(r, o, d) THEN {directSegment(r, o, d).fare} ELSE {}
<1>1. PICK seg : seg = directSegment(r, o, d)
  OBVIOUS
<1>2. seg.fare = SumFares(seg.legs)
  BY <1>1 DEF directSegment
<1>3. Stretches(r, o, d) = IF Rides(r, o, d) THEN {seg.legs} ELSE {}
  BY <1>1, OneStretch DEF Walkable
<1>4. RideFares(r, o, d) = IF Rides(r, o, d) THEN {seg.fare} ELSE {}
  BY <1>2, <1>3 DEF RideFares
<1>5. ASSUME Rides(r, o, d) PROVE seg.fare \in Int
  <2>1. PICK legs : legs = r.legs
    OBVIOUS
  <2>2. legs \in Seq(ToSet(legs)) /\ \A i \in DOMAIN legs : legs[i].fare \in Int
    BY <2>1 DEF Walkable
  <2>3. PICK i \in DOMAIN legs, j \in DOMAIN legs : seg.legs = SubSeq(legs, i, j)
    <3>1. seg.legs \in Stretches(r, o, d)
      BY <1>3, <1>5
    <3> QED
      BY <2>1, <3>1 DEF Stretches
  <2>4. PICK t : t = seg.legs
    OBVIOUS
  <2>5. /\ t \in Seq(ToSet(legs)) /\ Len(t) = IF i <= j THEN j - i + 1 ELSE 0
        /\ i \in 1 .. Len(legs) /\ j \in 1 .. Len(legs)
        /\ \A k \in 1 .. Len(t) : t[k] = legs[i + k - 1]
    BY <2>2, <2>3, <2>4, Stretch
  <2>6. \A k \in DOMAIN t : t[k].fare \in Int
    <3>1. ASSUME NEW k \in 1 .. Len(t) PROVE t[k].fare \in Int
      <4>1. i + k - 1 \in DOMAIN legs
        BY <2>5
      <4> QED
        BY <2>2, <2>5, <4>1
    <3> QED
      BY <2>5, <3>1
  <2>7. t \in Seq(ToSet(t))
    <3>1. t \in [1 .. Len(t) -> ToSet(t)] /\ Len(t) \in Nat
      BY <2>5 DEF ToSet
    <3> QED
      BY <3>1
  <2> QED
    BY <1>2, <2>4, <2>6, <2>7, FaresAddUp
<1> QED
  BY <1>1, <1>4, <1>5

-----------------------------------------------------------------------------
(* A network on which the search is right.                                    *)
Searched(net) == DOMAIN net = 1 .. Len(net) /\ Len(net) \in Nat
                 /\ \A i \in DOMAIN net : Walkable(net[i].legs)

(* The direct rides: the routes that offer one, and their fares.              *)
LEMMA DirectRides ==
    ASSUME NEW net, Searched(net), NEW o, NEW d, o # d
    PROVE  /\ \A f : f \in JourneyFares(net, o, d, 0) <=>
                        \E i \in Direct(net, o, d) : f = directSegment(net[i], o, d).fare
           /\ \A i \in Direct(net, o, d) : directSegment(net[i], o, d).fare \in Int
<1>1. \A i \in DOMAIN net :
          /\ Rides(net[i], o, d) => directSegment(net[i], o, d).fare \in Int
          /\ RideFares(net[i], o, d) =
                 IF Rides(net[i], o, d) THEN {directSegment(net[i], o, d).fare} ELSE {}
  BY OneRideFare DEF Searched
<1>2. \A f : f \in JourneyFares(net, o, d, 0) <=> \E i \in DOMAIN net : f \in RideFares(net[i], o, d)
  BY DEF JourneyFares
<1> QED
  BY <1>1, <1>2 DEF Direct

(* A journey of two rides, on different routes, meeting at a stop.            *)
LEMMA TwoRides ==
    ASSUME NEW net, NEW o, NEW d, NEW f
    PROVE  f \in JourneyFares(net, o, d, 1) <=>
               \E i, j \in DOMAIN net :
                   /\ net[i].route # net[j].route
                   /\ \E s \in UNION {ToSet(stopsOf(net[k].legs)) : k \in DOMAIN net} :
                      \E g \in RideFares(net[i], o, s), h \in RideFares(net[j], s, d) : f = g + h
<1> DEFINE D == DOMAIN net
<1> DEFINE S == UNION {ToSet(stopsOf(net[k].legs)) : k \in D}
<1> DEFINE changes == {t \in D \X D \X S : net[t[1]].route # net[t[2]].route}
<1> DEFINE both(t) == RideFares(net[t[1]], o, t[3]) \X RideFares(net[t[2]], t[3], d)
<1>1. JourneyFares(net, o, d, 1) = UNION {{g[1] + g[2] : g \in both(t)} : t \in changes}
  BY DEF JourneyFares
<1>2. f \in JourneyFares(net, o, d, 1) <=> \E t \in changes : \E g \in both(t) : f = g[1] + g[2]
  <2> DEFINE fares(t) == {g[1] + g[2] : g \in both(t)}
  <2> HIDE DEF changes, both
  <2>1. \A t : f \in fares(t) <=> \E g \in both(t) : f = g[1] + g[2]
    OBVIOUS
  <2>2. f \in JourneyFares(net, o, d, 1) <=> \E t \in changes : f \in fares(t)
    BY <1>1
  <2> HIDE DEF fares
  <2> QED
    BY <2>1, <2>2
<1> HIDE DEF S, D
<1>3. ASSUME NEW t \in changes, NEW g \in both(t), f = g[1] + g[2]
      PROVE  \E i, j \in D :
                 /\ net[i].route # net[j].route
                 /\ \E s \in S :
                    \E x \in RideFares(net[i], o, s), h \in RideFares(net[j], s, d) : f = x + h
  <2>1. t[1] \in D /\ t[2] \in D /\ t[3] \in S /\ net[t[1]].route # net[t[2]].route
    OBVIOUS
  <2>2. g[1] \in RideFares(net[t[1]], o, t[3]) /\ g[2] \in RideFares(net[t[2]], t[3], d)
    OBVIOUS
  <2> HIDE DEF both, changes
  <2> QED
    BY <1>3, <2>1, <2>2, Zenon
<1>4. ASSUME NEW i \in D, NEW j \in D, net[i].route # net[j].route, NEW s \in S,
             NEW x \in RideFares(net[i], o, s), NEW h \in RideFares(net[j], s, d), f = x + h
      PROVE  \E t \in changes : \E g \in both(t) : f = g[1] + g[2]
  <2>1. PICK t : t = <<i, j, s>>
    OBVIOUS
  <2>2. t \in D \X D \X S /\ t[1] = i /\ t[2] = j /\ t[3] = s
    BY <2>1
  <2>3. PICK g : g = <<x, h>>
    OBVIOUS
  <2>4. g \in RideFares(net[i], o, s) \X RideFares(net[j], s, d) /\ g[1] = x /\ g[2] = h
    BY <2>3
  <2>5. t \in changes
    BY <1>4, <2>2
  <2>6. g \in both(t)
    BY <2>2, <2>4
  <2> HIDE DEF both, changes
  <2> QED
    BY <1>4, <2>4, <2>5, <2>6, Zenon
<1> HIDE DEF changes, both
<1> QED
  BY <1>2, <1>3, <1>4, Zenon DEF S, D

(* There are finitely many triples of members of three finite sets.           *)
LEMMA FiniteTriples ==
    ASSUME NEW A, NEW B, NEW C, IsFiniteSet(A), IsFiniteSet(B), IsFiniteSet(C)
    PROVE  IsFiniteSet(A \X B \X C)
<1> DEFINE P == A \X (B \X C)
<1> DEFINE f == [p \in P |-> <<p[1], p[2][1], p[2][2]>>]
<1>1. IsFiniteSet(P)
  BY FS_Product
<1>2. IsFiniteSet({f[p] : p \in P})
  <2> HIDE DEF f, P
  <2> QED
    BY <1>1, FiniteImage
<1>3. A \X B \X C \subseteq {f[p] : p \in P}
  <2>1. ASSUME NEW t \in A \X B \X C PROVE t \in {f[p] : p \in P}
    <3>1. PICK p : p = <<t[1], <<t[2], t[3]>>>>
      OBVIOUS
    <3>2. p \in P /\ f[p] = t
      BY <3>1
    <3> HIDE DEF f, P
    <3> QED
      BY <3>2
  <2> QED
    BY <2>1, Zenon
<1> QED
  BY <1>2, <1>3, FS_Subset

(* The loops of the search meet the interchanges in an order with a first.    *)
LEMMA FirstOfTriples ==
    ASSUME NEW S, S # {}, \A t \in S : t[1] \in Nat /\ t[2] \in Nat /\ t[3] \in Nat
    PROVE  \E t \in S : \A u \in S : Before(t, u)
<1> DEFINE I == {t[1] : t \in S}
<1>1. PICK i \in I : \A k \in I : i <= k
  <2>1. I \subseteq Nat /\ I # {}
    OBVIOUS
  <2> HIDE DEF I
  <2> QED
    BY <2>1, LeastNat
<1> DEFINE R == {t \in S : t[1] = i}
<1> DEFINE J == {t[2] : t \in R}
<1>2. PICK j \in J : \A k \in J : j <= k
  <2>1. J \subseteq Nat /\ J # {}
    OBVIOUS
  <2> HIDE DEF J
  <2> QED
    BY <2>1, LeastNat
<1> DEFINE Q == {t \in R : t[2] = j}
<1> DEFINE K == {t[3] : t \in Q}
<1>3. PICK k \in K : \A l \in K : k <= l
  <2>1. K \subseteq Nat /\ K # {}
    OBVIOUS
  <2> HIDE DEF K
  <2> QED
    BY <2>1, LeastNat
<1>4. PICK t \in S : t[1] = i /\ t[2] = j /\ t[3] = k
  OBVIOUS
<1>5. ASSUME NEW u \in S PROVE Before(t, u)
  <2>1. i <= u[1] /\ u[1] \in Nat /\ i \in Nat
    BY <1>1, <1>4
  <2>2. CASE i < u[1]
    BY <1>4, <2>2 DEF Before
  <2>3. CASE u[1] = i
    <3>1. j <= u[2] /\ u[2] \in Nat /\ j \in Nat
      BY <1>2, <1>4, <2>3
    <3>2. CASE j < u[2]
      BY <1>4, <2>3, <3>2 DEF Before
    <3>3. CASE u[2] = j
      <4>1. k <= u[3]
        BY <1>3, <2>3, <3>3
      <4> QED
        BY <1>4, <2>3, <3>3, <4>1 DEF Before
    <3> QED
      BY <3>1, <3>2, <3>3
  <2> QED
    BY <2>1, <2>2, <2>3
<1> QED
  BY <1>5

(* The stops along a route are finitely many.                                 *)
LEMMA StopsCounted ==
    ASSUME NEW legs, legs \in Seq(ToSet(legs))
    PROVE  LET s == stopsOf(legs) IN Len(s) \in Nat /\ DOMAIN s = 1 .. Len(s)
<1>1. CASE legs = <<>>
  <2>1. stopsOf(legs) = <<>>
    BY <1>1 DEF stopsOf
  <2> QED
    BY <2>1
<1>2. CASE legs # <<>>
  <2>1. Len(legs) \in Nat /\ Len(stopsOf(legs)) = Len(legs) + 1
        /\ DOMAIN stopsOf(legs) = 1 .. Len(stopsOf(legs))
    BY <1>2, StopsAlong
  <2> QED
    BY <2>1
<1> QED
  BY <1>1, <1>2

(* What the three loops compare, and that they end.                           *)
LEMMA ChangesAre ==
    ASSUME NEW net, Searched(net), NEW o, NEW d
    PROVE  /\ \A t : t \in Interchanges(net, o, d) <=>
                  /\ t \in (DOMAIN net) \X (DOMAIN net) \X (1 .. Len(stopsOf(net[t[1]].legs)))
                  /\ net[t[1]].route # net[t[2]].route
                  /\ Rides(net[t[1]], o, stopsOf(net[t[1]].legs)[t[3]])
                  /\ Rides(net[t[2]], stopsOf(net[t[1]].legs)[t[3]], d)
           /\ IsFiniteSet(Interchanges(net, o, d))
           /\ \A t \in Interchanges(net, o, d) : t[1] \in Nat /\ t[2] \in Nat /\ t[3] \in Nat
<1> DEFINE along(i) == {i} \X (DOMAIN net) \X (1 .. Len(stopsOf(net[i].legs)))
<1> DEFINE all == UNION {along(i) : i \in DOMAIN net}
<1>1. IsFiniteSet(all)
  <2> DEFINE f == [i \in DOMAIN net |-> along(i)]
  <2>1. IsFiniteSet(DOMAIN net)
    BY FS_Interval DEF Searched
  <2>2. IsFiniteSet({f[i] : i \in DOMAIN net})
    <3> HIDE DEF f
    <3> QED
      BY <2>1, FiniteImage
  <2>3. {f[i] : i \in DOMAIN net} = {along(i) : i \in DOMAIN net}
    OBVIOUS
  <2>4. ASSUME NEW i \in DOMAIN net PROVE IsFiniteSet(along(i))
    <3>1. PICK legs : legs = net[i].legs
      OBVIOUS
    <3>2. Len(stopsOf(legs)) \in Nat
      BY <3>1, StopsCounted DEF Searched, Walkable
    <3>3. IsFiniteSet(1 .. Len(stopsOf(legs))) /\ IsFiniteSet({i})
      <4>1. 1 \in Int /\ Len(stopsOf(legs)) \in Int
        BY <3>2
      <4> QED
        BY <4>1, FS_Interval, FS_Singleton
    <3> QED
      BY <2>1, <3>1, <3>3, FiniteTriples
  <2> HIDE DEF f, along
  <2> QED
    BY <2>2, <2>3, <2>4, FS_UNION
<1>2. \A t : t \in all <=> t \in (DOMAIN net) \X (DOMAIN net) \X (1 .. Len(stopsOf(net[t[1]].legs)))
  OBVIOUS
<1>3. Interchanges(net, o, d) =
          {t \in all : LET at == stopsOf(net[t[1]].legs)
                       IN  /\ net[t[1]].route # net[t[2]].route
                           /\ Rides(net[t[1]], o, at[t[3]])
                           /\ Rides(net[t[2]], at[t[3]], d)}
  BY DEF Interchanges
<1> HIDE DEF all
<1>4. IsFiniteSet(Interchanges(net, o, d))
  <2>1. Interchanges(net, o, d) \subseteq all
    BY <1>3
  <2> QED
    BY <1>1, <2>1, FS_Subset
<1>5. \A t : t \in Interchanges(net, o, d) <=>
          /\ t \in (DOMAIN net) \X (DOMAIN net) \X (1 .. Len(stopsOf(net[t[1]].legs)))
          /\ net[t[1]].route # net[t[2]].route
          /\ Rides(net[t[1]], o, stopsOf(net[t[1]].legs)[t[3]])
          /\ Rides(net[t[2]], stopsOf(net[t[1]].legs)[t[3]], d)
  BY <1>2, <1>3
<1>6. \A t \in Interchanges(net, o, d) : t[1] \in Nat /\ t[2] \in Nat /\ t[3] \in Nat
  <2>1. ASSUME NEW t \in Interchanges(net, o, d) PROVE t[1] \in Nat /\ t[2] \in Nat /\ t[3] \in Nat
    <3>1. PICK n : n = Len(stopsOf(net[t[1]].legs))
      OBVIOUS
    <3>2. t \in (DOMAIN net) \X (DOMAIN net) \X (1 .. n)
      BY <1>5, <3>1
    <3> QED
      BY <3>2 DEF Searched
  <2> QED
    BY <2>1
<1> QED
  BY <1>4, <1>5, <1>6

(* No ride leads back to the stop where it begins.                            *)
LEMMA RidesApart ==
    ASSUME NEW r, Walkable(r.legs), NEW o, NEW d, Rides(r, o, d)
    PROVE  o # d
<1>1. PICK legs : legs = r.legs
  OBVIOUS
<1>2. position(legs, o) \in 0 .. Len(stopsOf(legs)) /\ Len(stopsOf(legs)) \in Nat
  BY <1>1, PositionIs, StopsCounted DEF Walkable
<1> QED
  BY <1>1, <1>2 DEF Rides

(* A change of routes is two rides that meet at a stop, and costs both.       *)
LEMMA ChangeIs ==
    ASSUME NEW net, Searched(net), NEW o, NEW d, NEW t \in Interchanges(net, o, d)
    PROVE  LET c == Change(net, t, o, d)
           IN  /\ c.fare \in Int /\ c.fare \in JourneyFares(net, o, d, 1)
               /\ c.transfers = 1 /\ c.segments # <<>>
<1>1. PICK i, j : i = t[1] /\ j = t[2]
  OBVIOUS
<1>2. PICK at : at = stopsOf(net[i].legs)[t[3]]
  OBVIOUS
<1>3. PICK a, b : a = directSegment(net[i], o, at) /\ b = directSegment(net[j], at, d)
  OBVIOUS
<1>4. /\ i \in DOMAIN net /\ j \in DOMAIN net /\ t[3] \in 1 .. Len(stopsOf(net[i].legs))
      /\ net[i].route # net[j].route /\ Rides(net[i], o, at) /\ Rides(net[j], at, d)
  <2>1. PICK n : n = Len(stopsOf(net[t[1]].legs))
    OBVIOUS
  <2>2. /\ t \in (DOMAIN net) \X (DOMAIN net) \X (1 .. n)
        /\ net[i].route # net[j].route /\ Rides(net[i], o, at) /\ Rides(net[j], at, d)
    BY <1>1, <1>2, <2>1, ChangesAre
  <2> QED
    BY <1>1, <2>1, <2>2
<1>5. o # at /\ at # d
  BY <1>4, RidesApart DEF Searched
<1>6. a.fare \in Int /\ a.fare \in RideFares(net[i], o, at)
      /\ b.fare \in Int /\ b.fare \in RideFares(net[j], at, d)
  BY <1>3, <1>4, <1>5, OneRideFare DEF Searched
<1>7. PICK c : c = Change(net, t, o, d)
  OBVIOUS
<1>8. c = [transfers |-> Len(<<a, b>>) - 1, fare |-> SumFares(<<a, b>>), segments |-> <<a, b>>]
  BY <1>1, <1>2, <1>3, <1>7 DEF Change, Path
<1>9. c.transfers = 1 /\ c.fare = a.fare + b.fare /\ c.segments # <<>>
  BY <1>6, <1>8, TwoFares
<1>10. at \in UNION {ToSet(stopsOf(net[k].legs)) : k \in DOMAIN net}
  <2>1. PICK legs : legs = net[i].legs
    OBVIOUS
  <2>2. at \in ToSet(stopsOf(legs))
    BY <1>2, <1>4, <2>1, StopsCounted DEF Searched, Walkable, ToSet
  <2> QED
    BY <1>4, <2>1, <2>2
<1>11. c.fare \in JourneyFares(net, o, d, 1)
  BY <1>4, <1>6, <1>9, <1>10, TwoRides
<1> QED
  BY <1>6, <1>7, <1>9, <1>11

(* Where no route is ridden directly, every journey of two rides is one of    *)
(* the changes that are compared.                                             *)
LEMMA EveryChange ==
    ASSUME NEW net, Searched(net), NEW o, NEW d, o # d, Direct(net, o, d) = {},
           NEW f \in JourneyFares(net, o, d, 1)
    PROVE  \E t \in Interchanges(net, o, d) : f = Change(net, t, o, d).fare
<1>1. PICK i \in DOMAIN net, j \in DOMAIN net :
          /\ net[i].route # net[j].route
          /\ \E s \in UNION {ToSet(stopsOf(net[k].legs)) : k \in DOMAIN net} :
             \E g \in RideFares(net[i], o, s), h \in RideFares(net[j], s, d) : f = g + h
  BY TwoRides
<1>2. PICK s : \E g \in RideFares(net[i], o, s), h \in RideFares(net[j], s, d) : f = g + h
  BY <1>1
<1>3. PICK g \in RideFares(net[i], o, s), h \in RideFares(net[j], s, d) : f = g + h
  BY <1>2
<1>4. Walkable(net[i].legs) /\ Walkable(net[j].legs)
  BY DEF Searched
<1>5. RideFares(net[i], o, d) = {} /\ RideFares(net[j], o, d) = {}
  BY <1>4, OneRideFare DEF Direct
<1>6. o # s /\ s # d
  BY <1>3, <1>5
<1>7. /\ Rides(net[i], o, s) /\ g = directSegment(net[i], o, s).fare /\ g \in Int
      /\ Rides(net[j], s, d) /\ h = directSegment(net[j], s, d).fare /\ h \in Int
  BY <1>3, <1>4, <1>6, OneRideFare
<1>8. PICK legs : legs = net[i].legs
  OBVIOUS
<1>9. PICK k \in 1 .. Len(stopsOf(legs)) : stopsOf(legs)[k] = s
  <2>1. Len(stopsOf(legs)) \in Nat /\ position(legs, s) \in 0 .. Len(stopsOf(legs))
        /\ (0 < position(legs, s) => stopsOf(legs)[position(legs, s)] = s)
    BY <1>4, <1>8, PositionIs, StopsCounted DEF Walkable
  <2>2. position(legs, o) \in Int /\ 0 < position(legs, o) /\ position(legs, o) < position(legs, s)
    <3>1. position(legs, o) \in 0 .. Len(stopsOf(legs))
      BY <1>4, <1>8, PositionIs DEF Walkable
    <3> QED
      BY <1>7, <1>8, <2>1, <3>1 DEF Rides
  <2>3. position(legs, s) \in 1 .. Len(stopsOf(legs))
    BY <2>1, <2>2
  <2> QED
    BY <2>1, <2>3
<1>10. PICK t : t = <<i, j, k>>
  OBVIOUS
<1>11. t[1] = i /\ t[2] = j /\ t[3] = k
  BY <1>10
<1>12. t \in Interchanges(net, o, d)
  <2>1. t \in (DOMAIN net) \X (DOMAIN net) \X (1 .. Len(stopsOf(legs)))
    BY <1>10
  <2> QED
    BY <1>1, <1>7, <1>8, <1>9, <1>11, <2>1, ChangesAre
<1>13. Change(net, t, o, d).fare = f
  <2>1. PICK a, b : a = directSegment(net[i], o, s) /\ b = directSegment(net[j], s, d)
    OBVIOUS
  <2>2. Change(net, t, o, d) =
            [transfers |-> Len(<<a, b>>) - 1, fare |-> SumFares(<<a, b>>), segments |-> <<a, b>>]
    BY <1>8, <1>9, <1>11, <2>1 DEF Change, Path
  <2> QED
    BY <1>3, <1>7, <2>1, <2>2, TwoFares
<1> QED
  BY <1>12, <1>13

(* The direct rides as paths.                                                 *)
LEMMA DirectFare ==
    ASSUME NEW net, Searched(net), NEW o, NEW d, o # d
    PROVE  LET ride(i) == Path(<<directSegment(net[i], o, d)>>)
           IN  /\ \A i \in Direct(net, o, d) :
                      ride(i).fare \in Int /\ ride(i).transfers = 0 /\ ride(i).segments # <<>>
               /\ \A f : f \in JourneyFares(net, o, d, 0) <=>
                            \E i \in Direct(net, o, d) : f = ride(i).fare
<1> DEFINE ride(i) == Path(<<directSegment(net[i], o, d)>>)
<1> DEFINE direct == Direct(net, o, d)
<1>1. ASSUME NEW i \in direct
      PROVE  /\ ride(i).fare = directSegment(net[i], o, d).fare /\ ride(i).fare \in Int
             /\ ride(i).transfers = 0 /\ ride(i).segments # <<>>
  <2>1. PICK a : a = directSegment(net[i], o, d)
    OBVIOUS
  <2>2. a.fare \in Int
    BY <2>1, DirectRides
  <2>3. PICK p : p = ride(i)
    OBVIOUS
  <2>4. p = [transfers |-> Len(<<a>>) - 1, fare |-> SumFares(<<a>>), segments |-> <<a>>]
    BY <2>1, <2>3 DEF Path
  <2>5. p.transfers = 0 /\ p.fare = a.fare /\ p.segments # <<>>
    BY <2>2, <2>4, OneFare
  <2> QED
    BY <2>1, <2>2, <2>3, <2>5
<1>2. \A f : f \in JourneyFares(net, o, d, 0) <=> \E i \in direct : f = directSegment(net[i], o, d).fare
  BY DirectRides
<1> HIDE DEF ride, direct
<1>3. \A f : f \in JourneyFares(net, o, d, 0) <=> \E i \in direct : f = ride(i).fare
  BY <1>1, <1>2
<1> QED
  BY <1>1, <1>3 DEF ride, direct

(* What Search returns: the cheapest direct ride, else the cheapest change,   *)
(* else nothing.                                                              *)
LEMMA SearchIs ==
    ASSUME NEW net, Searched(net), NEW o, NEW d
    PROVE  LET ride(i) == Path(<<directSegment(net[i], o, d)>>)
               change(t) == Change(net, t, o, d)
               path == Search(net, o, d)
           IN  \/ /\ path = NoPath
                  /\ o = d \/ (Direct(net, o, d) = {} /\ Interchanges(net, o, d) = {})
               \/ /\ o # d
                  /\ \E m \in Direct(net, o, d) :
                        path = ride(m) /\ \A i \in Direct(net, o, d) : ride(m).fare <= ride(i).fare
               \/ /\ o # d /\ Direct(net, o, d) = {}
                  /\ \E m \in Interchanges(net, o, d) :
                        /\ path = change(m)
                        /\ \A t \in Interchanges(net, o, d) : change(m).fare <= change(t).fare
<1> DEFINE ride(i) == Path(<<directSegment(net[i], o, d)>>)
<1> DEFINE direct == Direct(net, o, d)
<1> DEFINE cheapRide == {i \in direct : \A j \in direct : ride(i).fare <= ride(j).fare}
<1> DEFINE change(t) == Change(net, t, o, d)
<1> DEFINE changes == Interchanges(net, o, d)
<1> DEFINE cheapChange == {t \in changes : \A u \in changes : change(t).fare <= change(u).fare}
<1> DEFINE path == Search(net, o, d)
<1>0. path = IF o = d THEN NoPath
             ELSE IF direct # {} THEN ride(Min(cheapRide))
             ELSE IF changes # {}
                  THEN change(CHOOSE t \in cheapChange : \A u \in cheapChange : Before(t, u))
             ELSE NoPath
  BY DEF Search
<1> HIDE DEF path
<1>1. CASE o # d /\ direct # {}
  <2>1. \A i \in direct : ride(i).fare \in Int
    BY <1>1, DirectFare
  <2>2. IsFiniteSet(direct) /\ direct \subseteq Int
    <3>1. direct \subseteq DOMAIN net /\ IsFiniteSet(DOMAIN net) /\ DOMAIN net \subseteq Int
      BY FS_Interval DEF Direct, Searched
    <3> QED
      BY <3>1, FS_Subset
  <2> HIDE DEF direct, ride
  <2>3. cheapRide # {}
    <3>1. PICK f : f = [i \in direct |-> ride(i).fare]
      OBVIOUS
    <3>2. \A i \in direct : f[i] = ride(i).fare /\ f[i] \in Int
      BY <2>1, <3>1
    <3>3. PICK m \in direct : \A i \in direct : f[m] <= f[i]
      BY <1>1, <2>2, <3>2, LeastValue
    <3>4. m \in cheapRide
      BY <3>2, <3>3
    <3> QED
      BY <3>4
  <2>4. PICK m \in cheapRide : m = Min(cheapRide)
    <3>1. cheapRide \subseteq direct
      OBVIOUS
    <3> HIDE DEF cheapRide
    <3> QED
      BY <2>2, <2>3, <3>1, FS_Subset, MinMax
  <2>5. path = ride(m) /\ m \in direct /\ \A i \in direct : ride(m).fare <= ride(i).fare
    BY <1>0, <1>1, <2>4
  <2> QED
    BY <1>1, <2>5 DEF path, ride, direct
<1>2. CASE o # d /\ direct = {} /\ changes # {}
  <2>1. \A t \in changes : change(t).fare \in Int
    BY ChangeIs
  <2>2. IsFiniteSet(changes) /\ \A t \in changes : t[1] \in Nat /\ t[2] \in Nat /\ t[3] \in Nat
    BY ChangesAre
  <2> HIDE DEF change, changes
  <2>3. cheapChange # {}
    <3>1. PICK f : f = [t \in changes |-> change(t).fare]
      OBVIOUS
    <3>2. \A t \in changes : f[t] = change(t).fare /\ f[t] \in Int
      BY <2>1, <3>1
    <3>3. PICK m \in changes : \A t \in changes : f[m] <= f[t]
      BY <1>2, <2>2, <3>2, LeastValue
    <3>4. m \in cheapChange
      BY <3>2, <3>3
    <3> QED
      BY <3>4
  <2>4. PICK m \in cheapChange :
            m = CHOOSE t \in cheapChange : \A u \in cheapChange : Before(t, u)
    <3>1. cheapChange \subseteq changes
      OBVIOUS
    <3> HIDE DEF cheapChange
    <3>2. \E t \in cheapChange : \A u \in cheapChange : Before(t, u)
      BY <2>2, <2>3, <3>1, FirstOfTriples
    <3> QED
      BY <3>2
  <2>5. path = change(m) /\ m \in changes /\ \A t \in changes : change(m).fare <= change(t).fare
    BY <1>0, <1>2, <2>4
  <2> QED
    BY <1>2, <2>5 DEF path, change, changes
<1>3. CASE o = d \/ (direct = {} /\ changes = {})
  BY <1>0, <1>3 DEF path
<1> QED
  BY <1>1, <1>2, <1>3

(* Search finds the best journey on any network of searchable routes: the     *)
(* first of the cheapest direct rides, else the first of the cheapest         *)
(* changes, and nothing only where there is nothing.                          *)
THEOREM SearchFindsBest ==
    ASSUME NEW net, Searched(net), NEW o, NEW d
    PROVE  BestJourney(net, o, d, Search(net, o, d))
<1>1. PICK path : path = Search(net, o, d)
  OBVIOUS
<1> DEFINE direct == Direct(net, o, d)
<1> DEFINE ride(i) == Path(<<directSegment(net[i], o, d)>>)
<1> DEFINE change(t) == Change(net, t, o, d)
<1> DEFINE changes == Interchanges(net, o, d)
<1>2. \/ path = NoPath /\ (o = d \/ (direct = {} /\ changes = {}))
      \/ o # d /\ \E m \in direct : path = ride(m) /\ \A i \in direct : ride(m).fare <= ride(i).fare
      \/ /\ o # d /\ direct = {}
         /\ \E m \in changes : path = change(m) /\ \A t \in changes : change(m).fare <= change(t).fare
  BY <1>1, SearchIs
<1>3. o # d =>
          /\ \A f : f \in JourneyFares(net, o, d, 0) <=> \E i \in direct : f = ride(i).fare
          /\ direct = {} => \A f \in JourneyFares(net, o, d, 1) : \E t \in changes : f = change(t).fare
  BY DirectFare, EveryChange
<1>4. /\ o # d => \A i \in direct : ride(i).transfers = 0 /\ ride(i).segments # <<>>
      /\ \A t \in changes : /\ change(t).fare \in JourneyFares(net, o, d, 1)
                            /\ change(t).transfers = 1 /\ change(t).segments # <<>>
  BY DirectFare, ChangeIs
<1> HIDE DEF direct, ride, change, changes
<1>5. CASE path = NoPath /\ (o = d \/ (direct = {} /\ changes = {}))
  <2>1. o # d => JourneyFares(net, o, d, 0) = {} /\ JourneyFares(net, o, d, 1) = {}
    BY <1>3, <1>5
  <2> QED
    BY <1>1, <1>5, <2>1 DEF BestJourney
<1>6. CASE o # d /\ \E m \in direct :
                        path = ride(m) /\ \A i \in direct : ride(m).fare <= ride(i).fare
  <2>1. path.transfers = 0 /\ path # NoPath
    BY <1>4, <1>6 DEF NoPath
  <2>2. path.fare \in JourneyFares(net, o, d, 0)
        /\ \A f \in JourneyFares(net, o, d, 0) : path.fare <= f
    BY <1>3, <1>6
  <2> QED
    BY <1>1, <1>6, <2>1, <2>2 DEF BestJourney
<1>7. CASE /\ o # d /\ direct = {}
           /\ \E m \in changes : path = change(m)
                                 /\ \A t \in changes : change(m).fare <= change(t).fare
  <2>1. path.transfers = 1 /\ path # NoPath /\ JourneyFares(net, o, d, 0) = {}
    BY <1>3, <1>4, <1>7 DEF NoPath
  <2>2. path.fare \in JourneyFares(net, o, d, 1)
        /\ \A f \in JourneyFares(net, o, d, 1) : path.fare <= f
    BY <1>3, <1>4, <1>7
  <2>3. \A k \in 0 .. path.transfers - 1 : k = 0
    BY <2>1
  <2> QED
    BY <1>1, <1>7, <2>1, <2>2, <2>3 DEF BestJourney
<1> QED
  BY <1>2, <1>5, <1>6, <1>7

(* Where there is a direct ride, Search returns one that is no dearer.        *)
LEMMA DirectBest ==
    ASSUME NEW net, Searched(net), NEW o, NEW d, o # d,
           NEW i \in DOMAIN net, NEW f \in RideFares(net[i], o, d)
    PROVE  Len(Search(net, o, d).segments) = 1 /\ Search(net, o, d).fare <= f
<1>1. PICK path : path = Search(net, o, d)
  OBVIOUS
<1>2. f \in JourneyFares(net, o, d, 0)
  BY DEF JourneyFares
<1>3. PICK k \in Direct(net, o, d) : f = Path(<<directSegment(net[k], o, d)>>).fare
  BY <1>2, DirectFare
<1>4. PICK m \in Direct(net, o, d) :
          /\ path = Path(<<directSegment(net[m], o, d)>>)
          /\ \A j \in Direct(net, o, d) : path.fare <= Path(<<directSegment(net[j], o, d)>>).fare
  BY <1>1, <1>3, SearchIs
<1>5. Len(path.segments) = 1
  BY <1>4 DEF Path
<1> QED
  BY <1>1, <1>3, <1>4, <1>5

(* The legs of a segment are legs of the route that is ridden, ...            *)
LEMMA SegmentLegs ==
    ASSUME NEW r, Walkable(r.legs), NEW o, NEW d, Rides(r, o, d)
    PROVE  ToSet(directSegment(r, o, d).legs) \subseteq ToSet(r.legs)
<1>1. PICK legs : legs = r.legs
  OBVIOUS
<1>2. PICK p, q : p = position(legs, o) /\ q = position(legs, d)
  OBVIOUS
<1>3. directSegment(r, o, d).legs = SubSeq(legs, p, q - 1) /\ 0 < p /\ p < q
  BY <1>1, <1>2 DEF directSegment, Rides
<1>4. legs \in Seq(ToSet(legs))
  BY <1>1 DEF Walkable
<1>5. p \in Nat /\ q \in 0 .. Len(stopsOf(legs))
  BY <1>2, <1>4, PositionIs, StopsCounted
<1>6. legs # <<>>
  BY <1>3, <1>5 DEF stopsOf
<1>7. Len(stopsOf(legs)) = Len(legs) + 1 /\ Len(legs) \in Nat
  BY <1>4, <1>6, StopsAlong
<1>8. p \in 1 .. Len(legs) /\ q - 1 \in 1 .. Len(legs)
  BY <1>3, <1>5, <1>7
<1>9. PICK t : t = SubSeq(legs, p, q - 1)
  OBVIOUS
<1>10. t \in Seq(ToSet(legs))
  BY <1>4, <1>8, <1>9, Stretch
<1>11. ToSet(t) \subseteq ToSet(legs)
  BY <1>10 DEF ToSet
<1> QED
  BY <1>1, <1>3, <1>9, <1>11

(* ... and those of a path are legs of the network.                           *)
LEMMA SearchLegs ==
    ASSUME NEW net, Searched(net), NEW o, NEW d, NEW s \in ToSet(Search(net, o, d).segments)
    PROVE  \E i \in DOMAIN net : ToSet(s.legs) \subseteq ToSet(net[i].legs)
<1>1. PICK path : path = Search(net, o, d)
  OBVIOUS
<1>2. CASE path = NoPath
  BY <1>1, <1>2 DEF NoPath, ToSet
<1>3. CASE \E m \in Direct(net, o, d) : path = Path(<<directSegment(net[m], o, d)>>)
  <2>1. PICK m \in Direct(net, o, d) : path = Path(<<directSegment(net[m], o, d)>>)
    BY <1>3
  <2>2. PICK a : a = directSegment(net[m], o, d)
    OBVIOUS
  <2>3. path.segments = <<a>>
    BY <2>1, <2>2 DEF Path
  <2>4. s = a
    BY <1>1, <2>3 DEF ToSet
  <2>5. m \in DOMAIN net /\ Rides(net[m], o, d)
    BY DEF Direct
  <2> QED
    BY <2>2, <2>4, <2>5, SegmentLegs DEF Searched
<1>4. CASE \E t \in Interchanges(net, o, d) : path = Change(net, t, o, d)
  <2>1. PICK t \in Interchanges(net, o, d) : path = Change(net, t, o, d)
    BY <1>4
  <2>2. PICK i, j : i = t[1] /\ j = t[2]
    OBVIOUS
  <2>3. PICK at : at = stopsOf(net[i].legs)[t[3]]
    OBVIOUS
  <2>4. i \in DOMAIN net /\ j \in DOMAIN net /\ Rides(net[i], o, at) /\ Rides(net[j], at, d)
    <3>1. PICK n : n = Len(stopsOf(net[t[1]].legs))
      OBVIOUS
    <3>2. /\ t \in (DOMAIN net) \X (DOMAIN net) \X (1 .. n)
          /\ Rides(net[i], o, at) /\ Rides(net[j], at, d)
      BY <2>2, <2>3, <3>1, ChangesAre
    <3> QED
      BY <2>2, <3>1, <3>2
  <2>5. PICK a, b : a = directSegment(net[i], o, at) /\ b = directSegment(net[j], at, d)
    OBVIOUS
  <2>6. path.segments = <<a, b>>
    BY <2>1, <2>2, <2>3, <2>5 DEF Change, Path
  <2>7. s = a \/ s = b
    BY <1>1, <2>6 DEF ToSet
  <2> QED
    BY <2>4, <2>5, <2>7, SegmentLegs DEF Searched
<1> QED
  BY <1>1, <1>2, <1>3, <1>4, SearchIs

-----------------------------------------------------------------------------
(* A route that never comes back to a stop offers no ride from a stop to      *)
(* itself.                                                                    *)
LEMMA NoRoundTrip ==
    ASSUME NEW r, r.legs \in Seq(ToSet(r.legs)), Simple(r.legs), NEW o
    PROVE  RideFares(r, o, o) = {}
<1>1. PICK legs : legs = r.legs
  OBVIOUS
<1>2. ASSUME NEW t \in Stretches(r, o, o) PROVE FALSE
  <2>1. PICK i \in DOMAIN legs, j \in DOMAIN legs : t = SubSeq(legs, i, j)
    BY <1>1 DEF Stretches
  <2>2. t # <<>> /\ t[1].from = o /\ Last(t).to = o
    BY DEF Stretches
  <2>3. legs \in Seq(ToSet(legs)) /\ i \in 1 .. Len(legs) /\ j \in 1 .. Len(legs) /\ legs # <<>>
    BY <1>1
  <2>4. i <= j /\ legs[i].from = o /\ legs[j].to = o
    <3>1. PICK S : S = ToSet(legs)
      OBVIOUS
    <3>2. legs \in Seq(S) /\ i \in 1 .. Len(legs) /\ j \in 1 .. Len(legs)
      BY <2>3, <3>1
    <3>3. i <= j
      BY <2>1, <2>2, <3>2, Stretch
    <3>4. t[1] = legs[i] /\ t[Len(t)] = legs[j]
      BY <2>1, <3>2, <3>3, Stretch
    <3> QED
      BY <2>2, <3>3, <3>4 DEF Last
  <2>5. PICK s : s = stopsOf(legs)
    OBVIOUS
  <2>6. Len(s) = Len(legs) + 1 /\ s[j + 1] = o /\ Len(legs) \in Nat
    BY <2>3, <2>4, <2>5, StopsAlong
  <2>7. s[i] = o /\ \A k \in 1 .. Len(s) : position(legs, s[k]) = k
    BY <1>1, <2>3, <2>4, <2>5, PositionOf
  <2>8. i \in 1 .. Len(s) /\ j + 1 \in 1 .. Len(s)
    BY <2>3, <2>6
  <2>9. i = j + 1
    BY <2>6, <2>8, <2>7
  <2> QED
    BY <2>3, <2>4, <2>9
<1> QED
  BY <1>2 DEF RideFares

(* A ride starts and ends at stops of legs of the route.                      *)
LEMMA RideEnds ==
    ASSUME NEW r, r.legs \in Seq(ToSet(r.legs)), NEW o, NEW d, RideFares(r, o, d) # {}
    PROVE  \E k, m \in ToSet(r.legs) : k.from = o /\ m.to = d
<1>1. PICK legs : legs = r.legs
  OBVIOUS
<1>2. PICK t \in Stretches(r, o, d) : TRUE
  BY DEF RideFares
<1>3. PICK i \in DOMAIN legs, j \in DOMAIN legs : t = SubSeq(legs, i, j)
  BY <1>1 DEF Stretches
<1>4. t # <<>> /\ t[1].from = o /\ Last(t).to = d
  BY DEF Stretches
<1>5. legs \in Seq(ToSet(legs)) /\ i \in 1 .. Len(legs) /\ j \in 1 .. Len(legs)
  BY <1>1
<1>6. legs[i].from = o /\ legs[j].to = d
  <2>1. PICK S : S = ToSet(legs)
    OBVIOUS
  <2>2. legs \in Seq(S) /\ i \in 1 .. Len(legs) /\ j \in 1 .. Len(legs)
    BY <1>5, <2>1
  <2>3. i <= j
    BY <1>3, <1>4, <2>2, Stretch
  <2>4. t[1] = legs[i] /\ t[Len(t)] = legs[j]
    BY <1>3, <2>2, <2>3, Stretch
  <2> QED
    BY <1>4, <2>4 DEF Last
<1> QED
  BY <1>1, <1>6 DEF ToSet

(* A route that got more legs, at its end, offers the rides it did.           *)
LEMMA MoreRides ==
    ASSUME NEW p, NEW q, p.legs \in Seq(ToSet(p.legs)), q.legs \in Seq(ToSet(q.legs)),
           Len(p.legs) <= Len(q.legs), \A k \in 1 .. Len(p.legs) : q.legs[k] = p.legs[k],
           NEW o, NEW d
    PROVE  RideFares(p, o, d) \subseteq RideFares(q, o, d)
<1>1. PICK a, b : a = p.legs /\ b = q.legs
  OBVIOUS
<1>2. /\ a \in Seq(ToSet(a)) /\ b \in Seq(ToSet(b)) /\ Len(a) <= Len(b)
      /\ \A k \in 1 .. Len(a) : b[k] = a[k]
  BY <1>1
<1>3. ASSUME NEW t \in Stretches(p, o, d) PROVE t \in Stretches(q, o, d)
  <2>1. PICK i \in DOMAIN a, j \in DOMAIN a : t = SubSeq(a, i, j)
    BY <1>1 DEF Stretches
  <2>2. t # <<>> /\ t[1].from = o /\ Last(t).to = d
    BY DEF Stretches
  <2>3. i \in 1 .. Len(a) /\ j \in 1 .. Len(a) /\ i \in 1 .. Len(b) /\ j \in 1 .. Len(b)
        /\ Len(a) \in Nat /\ Len(b) \in Nat
    BY <1>2
  <2>4. /\ i <= j /\ t \in Seq(ToSet(a)) /\ Len(t) = j - i + 1
        /\ \A k \in 1 .. Len(t) : t[k] = a[i + k - 1]
    <3>1. PICK A : A = ToSet(a)
      OBVIOUS
    <3>2. a \in Seq(A)
      BY <1>2, <3>1
    <3>3. i \in 1 .. Len(a) /\ j \in 1 .. Len(a)
      BY <2>3
    <3>4. i <= j
      BY <2>1, <2>2, <3>2, <3>3, Stretch
    <3>5. t \in Seq(A) /\ Len(t) = j - i + 1
      BY <2>1, <3>2, <3>3, <3>4, Stretch
    <3>6. \A k \in 1 .. Len(t) : t[k] = a[i + k - 1]
      BY <2>1, <3>2, <3>3
    <3> QED
      BY <3>1, <3>4, <3>5, <3>6
  <2>5. PICK u : u = SubSeq(b, i, j)
    OBVIOUS
  <2>6. u \in Seq(ToSet(b)) /\ Len(u) = j - i + 1 /\ \A k \in 1 .. Len(u) : u[k] = b[i + k - 1]
    <3>1. PICK B : B = ToSet(b)
      OBVIOUS
    <3>2. b \in Seq(B)
      BY <1>2, <3>1
    <3>3. i \in 1 .. Len(b) /\ j \in 1 .. Len(b) /\ i <= j
      BY <2>3, <2>4
    <3>4. u \in Seq(B) /\ Len(u) = j - i + 1
      BY <2>5, <3>2, <3>3, Stretch
    <3>5. \A k \in 1 .. Len(u) : u[k] = b[i + k - 1]
      BY <2>5, <3>2, <3>3, Stretch
    <3> QED
      BY <3>1, <3>4, <3>5
  <2>7. ASSUME NEW k \in 1 .. Len(t) PROVE t[k] = u[k]
    <3>1. /\ i \in Nat /\ j \in Nat /\ i >= 1 /\ j <= Len(a) /\ Len(a) \in Nat
          /\ k \in Nat /\ k >= 1 /\ k <= j - i + 1
      <4>1. k \in 1 .. j - i + 1
        BY <2>4, Zenon
      <4> QED
        BY <2>3, <4>1
    <3>2. i + k - 1 \in 1 .. Len(a) /\ k \in 1 .. j - i + 1
      BY <3>1
    <3>3. t[k] = a[i + k - 1] /\ u[k] = b[i + k - 1]
      BY <2>4, <2>6, <3>2
    <3>4. b[i + k - 1] = a[i + k - 1]
      BY <1>2, <3>2
    <3> QED
      BY <3>3, <3>4
  <2>8. t = u
    BY <2>4, <2>6, <2>7
  <2>9. t \in {SubSeq(b, ij[1], ij[2]) : ij \in (DOMAIN b) \X (DOMAIN b)}
    <3>1. PICK ij : ij = <<i, j>>
      OBVIOUS
    <3>2. ij \in (DOMAIN b) \X (DOMAIN b) /\ ij[1] = i /\ ij[2] = j
      BY <1>2, <2>3, <3>1
    <3> QED
      BY <2>5, <2>8, <3>2
  <2> QED
    BY <1>1, <2>2, <2>9 DEF Stretches
<1> QED
  BY <1>3 DEF RideFares
=============================================================================
