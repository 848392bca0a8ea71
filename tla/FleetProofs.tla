----------------------------- MODULE FleetProofs -----------------------------
(***************************************************************************)
(* Proofs that a walk through the device list misses no device, that the   *)
(* list, its filters and the overview agree on the latest report, and that *)
(* the overview highlights what is stale, hides nothing and has charts     *)
(* that add up, for any devices, models, reports, page sizes, windows and  *)
(* deadlines.                                                              *)
(***************************************************************************)
EXTENDS Fleet, FiniteSetTheorems, WellFoundedInduction, TLAPS

(***************************************************************************)
(* The inductive invariant: devices and reports.                           *)
(***************************************************************************)

(* The clock that dates a device has not shown that time before. *)
Devices ==
  /\ device \in [Device -> DeviceRow \cup {None}]
  /\ IsFiniteSet(Existing)
  /\ \A d \in Existing : device[d].created < Cardinality(Existing)
  /\ \A d, e \in Existing : device[d].created = device[e].created => d = e

Infos ==
  /\ now \in 0..MaxTime
  /\ info \in Seq(ReportRow)
  /\ \A i \in DOMAIN info : info[i].dev \in WithStatus({"active", "retired"})

-----------------------------------------------------------------------------
(***************************************************************************)
(* Places in a list of devices                                             *)
(***************************************************************************)
LEMMA RowsAreRows ==
  ASSUME Devices, NEW d \in Existing
  PROVE  d \in Device /\ device[d] \in DeviceRow /\ device[d].created \in Nat
BY DEF Devices, Existing, DeviceRow

(* Devices are ordered by their creation. *)
LEMMA LaterIsAnOrder ==
  ASSUME Devices
  PROVE  /\ \A d \in Existing : ~CreatedLater(d, d)
         /\ \A d, e, f \in Existing : CreatedLater(d, e) /\ CreatedLater(e, f) => CreatedLater(d, f)
         /\ \A d, e \in Existing : CreatedLater(d, e) \/ CreatedLater(e, d) \/ d = e
<1>1. ASSUME NEW d \in Existing PROVE ~CreatedLater(d, d)
  <2>1. PICK p \in Int : p = device[d].created
    BY RowsAreRows
  <2> QED BY <2>1 DEF CreatedLater
<1>2. ASSUME NEW d \in Existing, NEW e \in Existing, NEW f \in Existing,
             CreatedLater(d, e), CreatedLater(e, f)
      PROVE  CreatedLater(d, f)
  <2>1. PICK p \in Int : p = device[d].created
    BY RowsAreRows
  <2>2. PICK q \in Int : q = device[e].created
    BY RowsAreRows
  <2>3. PICK r \in Int : r = device[f].created
    BY RowsAreRows
  <2> QED BY <1>2, <2>1, <2>2, <2>3 DEF CreatedLater
<1>3. ASSUME NEW d \in Existing, NEW e \in Existing, ~CreatedLater(d, e), ~CreatedLater(e, d)
      PROVE  d = e
  <2>1. PICK p \in Int : p = device[d].created
    BY RowsAreRows
  <2>2. PICK q \in Int : q = device[e].created
    BY RowsAreRows
  <2>3. p = q
    BY <1>3, <2>1, <2>2 DEF CreatedLater
  <2> QED BY <2>1, <2>2, <2>3 DEF Devices
<1> QED BY <1>1, <1>2, <1>3

(* The places of a list are numbered from 0, each taken once. *)
LEMMA Places ==
  ASSUME Devices, NEW S \in SUBSET Existing
  PROVE  /\ IsFiniteSet(S) /\ Cardinality(S) \in Nat
         /\ \A d \in S : Place(d, S) \in 0..(Cardinality(S) - 1)
         /\ \A d, e \in S : CreatedLater(d, e) => Place(d, S) < Place(e, S)
         /\ \A d, e \in S : Place(d, S) = Place(e, S) => d = e
         /\ \A k \in 0..(Cardinality(S) - 1) : \E d \in S : Place(d, S) = k
<1>1. IsFiniteSet(S) /\ Cardinality(S) \in Nat
  BY FS_Subset, FS_CardinalityType DEF Devices
<1> DEFINE Later(d) == {e \in S : CreatedLater(e, d)}
<1>2. \A d \in S : Place(d, S) = Cardinality(Later(d))
  BY DEF Place
<1>3. ASSUME NEW d \in S
      PROVE  /\ IsFiniteSet(Later(d)) /\ Cardinality(Later(d)) \in Nat
             /\ Cardinality(Later(d)) \in 0..(Cardinality(S) - 1)
  <2> DEFINE T == Later(d)
             R == S \ {d}
  <2>1. T \in SUBSET R
    BY LaterIsAnOrder
  <2>2. IsFiniteSet(R) /\ Cardinality(R) = Cardinality(S) - 1
    BY <1>1, FS_RemoveElement
  <2> HIDE DEF T, R
  <2>3. IsFiniteSet(T) /\ Cardinality(T) <= Cardinality(R)
    BY <2>1, <2>2, FS_Subset
  <2>4. Cardinality(T) \in Nat
    BY <2>3, FS_CardinalityType
  <2>5. T = Later(d)
    BY DEF T
  <2> QED BY <1>1, <2>2, <2>3, <2>4, <2>5
<1>4. ASSUME NEW d \in S, NEW e \in S, CreatedLater(d, e)
      PROVE  Cardinality(Later(d)) < Cardinality(Later(e))
  <2> DEFINE T == Later(d)
             U == Later(e)
  <2>1. T \cup {d} \in SUBSET U /\ d \notin T
    BY <1>4, LaterIsAnOrder
  <2>2. IsFiniteSet(T) /\ IsFiniteSet(U) /\ Cardinality(T) \in Nat /\ Cardinality(U) \in Nat
    BY <1>3
  <2> HIDE DEF T, U
  <2>3. Cardinality(T \cup {d}) = Cardinality(T) + 1
    BY <2>1, <2>2, FS_AddElement
  <2>4. Cardinality(T \cup {d}) <= Cardinality(U)
    BY <2>1, <2>2, FS_Subset
  <2>5. Cardinality(T) < Cardinality(U)
    BY <2>2, <2>3, <2>4
  <2> QED BY <2>5 DEF T, U
<1>5. \A d, e \in S : CreatedLater(d, e) => Place(d, S) < Place(e, S)
  BY <1>2, <1>4
<1>6. \A d \in S : Place(d, S) \in 0..(Cardinality(S) - 1)
  BY <1>2, <1>3
<1>7. ASSUME NEW d \in S, NEW e \in S, Place(d, S) = Place(e, S) PROVE d = e
  <2>1. ~CreatedLater(d, e) /\ ~CreatedLater(e, d)
    BY <1>5, <1>6, <1>7
  <2> QED BY <2>1, LaterIsAnOrder
<1>8. \A k \in 0..(Cardinality(S) - 1) : \E d \in S : Place(d, S) = k
  <2> DEFINE f == [d \in S |-> Place(d, S)]
             T == 0..(Cardinality(S) - 1)
  <2>1. IsFiniteSet(T) /\ Cardinality(T) = Cardinality(S)
    BY <1>1, FS_Interval
  <2>2. f \in Injection(S, T)
    BY <1>6, <1>7 DEF Injection, IsInjective
  <2> HIDE DEF f, T
  <2>3. f \in Surjection(S, T)
    BY <2>1, <2>2, FS_Injection
  <2>4. \A k \in T : \E d \in S : f[d] = k
    BY <2>3 DEF Surjection
  <2> QED BY <2>4 DEF f, T
<1> QED BY <1>1, <1>5, <1>6, <1>7, <1>8

(* So n places in a row are those of n devices, as far as the list goes. *)
LEMMA AtMost ==
  ASSUME Devices, NEW S \in SUBSET Existing, NEW T \in SUBSET S, NEW I, IsFiniteSet(I),
         \A d \in T : Place(d, S) \in I
  PROVE  IsFiniteSet(T) /\ Cardinality(T) <= Cardinality(I)
<1> DEFINE f == [d \in T |-> Place(d, S)]
<1>1. f \in Injection(T, I)
  BY Places DEF Injection, IsInjective
<1> HIDE DEF f
<1> QED BY <1>1, FS_Injection

LEMMA AtLeast ==
  ASSUME Devices, NEW S \in SUBSET Existing, NEW T \in SUBSET S, NEW a \in Nat, NEW n \in Nat,
         a + n <= Cardinality(S), \A d \in S : Place(d, S) \in a..(a + n - 1) => d \in T
  PROVE  n <= Cardinality(T)
<1> DEFINE U == {d \in S : Place(d, S) \in a..(a + n - 1)}
           f == [d \in U |-> Place(d, S)]
           I == a..(a + n - 1)
<1>1. Cardinality(I) = n
  BY FS_Interval
<1>2. \A k \in I : \E d \in U : f[d] = k
  <2> SUFFICES ASSUME NEW k \in I PROVE \E d \in U : f[d] = k
    OBVIOUS
  <2>1. k \in 0..(Cardinality(S) - 1)
    BY Places
  <2>2. PICK d \in S : Place(d, S) = k
    BY <2>1, Places
  <2> QED BY <2>2
<1>3. f \in Surjection(U, I)
  BY <1>2 DEF Surjection
<1>4. IsFiniteSet(T) /\ U \in SUBSET T
  BY Places, FS_Subset
<1> HIDE DEF U, f, I
<1>5. IsFiniteSet(U) /\ Cardinality(U) <= Cardinality(T)
  BY <1>4, FS_Subset
<1>6. Cardinality(I) <= Cardinality(U)
  BY <1>3, <1>5, FS_Surjection
<1>7. IsFiniteSet(I)
  BY <1>3, <1>5, FS_Surjection
<1>8. Cardinality(I) \in Nat /\ Cardinality(U) \in Nat /\ Cardinality(T) \in Nat
  BY <1>4, <1>5, <1>7, FS_CardinalityType
<1> QED BY <1>1, <1>5, <1>6, <1>8
-----------------------------------------------------------------------------
(***************************************************************************)
(* Pages of a list of devices                                              *)
(***************************************************************************)
LEMMA MinOfTwo ==
  ASSUME NEW a \in Int, NEW b \in Int
  PROVE  Min({a, b}) \in {a, b} /\ Min({a, b}) <= a /\ Min({a, b}) <= b
<1>1. \E x \in {a, b} : \A y \in {a, b} : x <= y
  OBVIOUS
<1>2. Min({a, b}) \in {a, b} /\ \A y \in {a, b} : Min({a, b}) <= y
  BY <1>1 DEF Min
<1> QED BY <1>2

LEMMA MaxOfTwo ==
  ASSUME NEW a \in Int, NEW b \in Int
  PROVE  Max({a, b}) \in {a, b} /\ Max({a, b}) >= a /\ Max({a, b}) >= b
<1>1. \E x \in {a, b} : \A y \in {a, b} : x >= y
  OBVIOUS
<1>2. Max({a, b}) \in {a, b} /\ \A y \in {a, b} : Max({a, b}) >= y
  BY <1>1 DEF Max
<1> QED BY <1>2

(* A limit is between one and the cap; within it, it is what was asked.    *)
LEMMA NormalizeLimits ==
  ASSUME NEW l \in Nat, NEW o \in Nat
  PROVE  \E m \in 1..PageCap :
           /\ Normalize([limit |-> l, offset |-> o], DefaultLimit, PageCap) = [limit |-> m, offset |-> o]
           /\ l \in 1..PageCap => m = l
<1>1. DefaultLimit \in Nat \ {0} /\ PageCap \in Nat \ {0}
  BY PagesAssumption
<1>2. PICK a \in Int : a = IF l <= 0 THEN DefaultLimit ELSE l
  BY <1>1
<1>3. PICK m \in Int : m = Min({PageCap, a}) /\ m \in {PageCap, a} /\ m <= PageCap /\ m <= a
  BY <1>1, MinOfTwo
<1>4. Max({0, o}) = o
  <2>1. PICK x \in Int : x = Max({0, o}) /\ x \in {0, o} /\ x >= 0 /\ x >= o
    BY MaxOfTwo
  <2> QED BY <2>1
<1>5. Normalize([limit |-> l, offset |-> o], DefaultLimit, PageCap) = [limit |-> m, offset |-> o]
  BY <1>2, <1>3, <1>4 DEF Normalize
<1>6. m \in 1..PageCap /\ (l \in 1..PageCap => m = l)
  BY <1>1, <1>2, <1>3
<1> QED BY <1>5, <1>6

(* Page after page, one row more than the page shows is asked for. *)
LEMMA PageParams ==
  ASSUME NEW page \in Nat \ {0}, NEW l \in Nat
  PROVE  \E k \in 1..PageCap :
           /\ listPaginationParams(page, l) = [limit |-> k + 1, offset |-> (page - 1) * k]
           /\ l \in 1..PageCap => k = l
<1>1. PICK k \in 1..PageCap :
        /\ Normalize([limit |-> l, offset |-> 0], DefaultLimit, PageCap) = [limit |-> k, offset |-> 0]
        /\ l \in 1..PageCap => k = l
  BY NormalizeLimits
<1>2. k \in Nat \ {0}
  BY <1>1, PagesAssumption
<1>3. Offset(page, k) = (page - 1) * k
  <2>1. CASE page = 1
    BY <1>2, <2>1 DEF Offset
  <2>2. CASE page > 1
    BY <1>2, <2>2 DEF Offset
  <2> QED BY <2>1, <2>2
<1>4. listPaginationParams(page, l) = [limit |-> k + 1, offset |-> Offset(page, k)]
  BY <1>1 DEF listPaginationParams
<1> QED BY <1>1, <1>3, <1>4

(* A page of l rows made from n: never more than l; and if one row more    *)
(* was asked for, all rows from o on, and the last ones if there is none.  *)
LEMMA PageRows ==
  ASSUME Devices, NEW S \in SUBSET Existing, NEW o \in Nat, NEW l \in Nat \ {0}, NEW n \in Nat
  PROVE  LET p == paginateItems(Rows(S, [limit |-> n, offset |-> o]), l)
         IN  /\ p.items \in SUBSET S /\ p.hasNext \in BOOLEAN
             /\ IsFiniteSet(p.items) /\ Cardinality(p.items) <= l
             /\ n = l + 1 =>
                  /\ \A d \in S : Place(d, S) \in o..(o + l - 1) => d \in p.items
                  /\ ~p.hasNext => \A d \in S : Place(d, S) < o + l
<1> DEFINE R == {d \in S : Place(d, S) \in o..(o + n - 1)}
           items == {d \in R : Place(d, R) < l}
<1>1. Rows(S, [limit |-> n, offset |-> o]) = R
  BY DEF Rows
<1>2. paginateItems(R, l) = [items |-> items, hasNext |-> Cardinality(R) > l]
  BY DEF paginateItems
<1>3. R \in SUBSET S /\ R \in SUBSET Existing /\ items \in SUBSET R
  OBVIOUS
<1>4. IsFiniteSet(R) /\ Cardinality(R) \in Nat /\ \A d \in R : Place(d, R) \in Nat
  <2> HIDE DEF R
  <2>1. /\ IsFiniteSet(R) /\ Cardinality(R) \in Nat
        /\ \A d \in R : Place(d, R) \in 0..(Cardinality(R) - 1)
    BY <1>3, Places
  <2> QED BY <2>1
<1>5. IsFiniteSet(items) /\ Cardinality(items) <= l
  <2> DEFINE I == 0..(l - 1)
  <2>1. ASSUME NEW d \in items PROVE Place(d, R) \in I
    <3>1. d \in R /\ Place(d, R) < l
      OBVIOUS
    <3>2. PICK q \in Nat : q = Place(d, R)
      BY <1>4, <3>1
    <3> QED BY <3>1, <3>2
  <2>2. IsFiniteSet(I) /\ Cardinality(I) = l
    BY FS_Interval
  <2> HIDE DEF items, R, I
  <2> QED BY <2>1, <2>2, <1>3, AtMost
<1>6. ASSUME n = l + 1, NEW d \in S, Place(d, S) \in o..(o + l - 1) PROVE d \in items
  <2> DEFINE T == {e \in R : CreatedLater(e, d)}
  <2>1. PICK k \in Nat : Place(d, S) = o + k /\ k < l
    <3>1. PICK q \in Int : q = Place(d, S) /\ q \in o..(o + l - 1)
      BY <1>6
    <3>2. q - o \in Nat /\ q - o < l /\ q = o + (q - o)
      BY <3>1
    <3> QED BY <3>1, <3>2
  <2>2. d \in R
    BY <1>6, <2>1
  <2> DEFINE I == o..(o + k - 1)
  <2>3. ASSUME NEW e \in T PROVE Place(e, S) \in I
    <3>1. e \in S /\ CreatedLater(e, d) /\ Place(e, S) \in o..(o + n - 1)
      OBVIOUS
    <3>2. Place(e, S) < Place(d, S)
      BY <3>1, Places
    <3>3. PICK q \in Int : q = Place(e, S) /\ q \in o..(o + n - 1)
      BY <3>1
    <3> QED BY <2>1, <3>2, <3>3
  <2>4. T \in SUBSET S /\ Place(d, R) = Cardinality(T)
    BY DEF Place
  <2>5. Cardinality(T) <= k
    <3>1. IsFiniteSet(I) /\ Cardinality(I) = k
      BY <2>1, FS_Interval
    <3> HIDE DEF T, I
    <3> QED BY <2>3, <2>4, <3>1, AtMost
  <2>6. Place(d, R) < l
    <3>1. PICK c \in Nat : c = Place(d, R)
      BY <1>4, <2>2
    <3> QED BY <2>1, <2>4, <2>5, <3>1
  <2> QED BY <2>2, <2>6
<1>7. ASSUME n = l + 1, Cardinality(R) <= l, NEW d \in S PROVE Place(d, S) < o + l
  <2> SUFFICES ASSUME Place(d, S) >= o + l PROVE FALSE
    <3>1. Place(d, S) \in 0..(Cardinality(S) - 1)
      BY Places
    <3>2. PICK q \in Int : q = Place(d, S)
      BY <3>1
    <3> QED BY <3>2
  <2>1. PICK q \in Int : q = Place(d, S) /\ q <= Cardinality(S) - 1
    BY Places
  <2>2. o + n <= Cardinality(S)
    <3>1. PICK c \in Nat : c = Cardinality(S)
      BY Places
    <3> QED BY <1>7, <2>1, <3>1
  <2>3. \A e \in S : Place(e, S) \in o..(o + n - 1) => e \in R
    OBVIOUS
  <2> HIDE DEF R
  <2>4. n <= Cardinality(R)
    BY <1>3, <2>2, <2>3, AtLeast
  <2> QED BY <1>4, <1>7, <2>4
<1> HIDE DEF items, R
<1>8. Cardinality(R) > l \/ Cardinality(R) <= l
  BY <1>4
<1>9. /\ items \in SUBSET S /\ (Cardinality(R) > l) \in BOOLEAN
      /\ IsFiniteSet(items) /\ Cardinality(items) <= l
      /\ n = l + 1 => /\ \A d \in S : Place(d, S) \in o..(o + l - 1) => d \in items
                      /\ ~(Cardinality(R) > l) => \A d \in S : Place(d, S) < o + l
  BY <1>3, <1>5, <1>6, <1>7, <1>8
<1> DEFINE p == paginateItems(Rows(S, [limit |-> n, offset |-> o]), l)
<1>10. p.items = items /\ p.hasNext = (Cardinality(R) > l)
  BY <1>1, <1>2
<1> QED BY <1>9, <1>10, Zenon

Listing(f) == {d \in Existing : Matches(d, f)}

(* A page of the device list. *)
LEMMA PageOf ==
  ASSUME Devices, NEW f, NEW page \in Nat \ {0}, NEW l \in 1..PageCap
  PROVE  LET p == devices(f, page, l)
         IN  /\ p.items \in SUBSET Listing(f) /\ p.hasNext \in BOOLEAN
             /\ IsFiniteSet(p.items) /\ Cardinality(p.items) <= l
             /\ l < PageCap =>
                  /\ \A d \in Listing(f) :
                       Place(d, Listing(f)) \in ((page - 1) * l)..((page - 1) * l + l - 1) => d \in p.items
                  /\ ~p.hasNext => \A d \in Listing(f) : Place(d, Listing(f)) < (page - 1) * l + l
<1> DEFINE S == Listing(f)
           p == devices(f, page, l)
<1>1. l \in Nat \ {0} /\ PageCap \in Nat \ {0} /\ l + 1 \in Nat
  BY PagesAssumption
<1>2. PICK o \in Nat : o = (page - 1) * l
  BY <1>1
<1>3. listPaginationParams(page, l) = [limit |-> l + 1, offset |-> o]
  BY <1>1, <1>2, PageParams
<1>4. PICK n \in Nat : /\ Normalize([limit |-> l + 1, offset |-> o], DefaultLimit, PageCap) = [limit |-> n, offset |-> o]
                       /\ l < PageCap => n = l + 1
  <2>1. PICK m \in 1..PageCap :
          /\ Normalize([limit |-> l + 1, offset |-> o], DefaultLimit, PageCap) = [limit |-> m, offset |-> o]
          /\ l + 1 \in 1..PageCap => m = l + 1
    BY <1>1, NormalizeLimits
  <2> QED BY <1>1, <2>1
<1>5. ListDevicesByFilter([limit |-> l + 1, offset |-> o], f) = Rows(S, [limit |-> n, offset |-> o])
  BY <1>4 DEF ListDevicesByFilter, Listing
<1>6. p = paginateItems(Rows(S, [limit |-> n, offset |-> o]), l)
  BY <1>1, <1>3, <1>5 DEF devices
<1>7. S \in SUBSET Existing
  BY DEF Listing
<1> HIDE DEF S, p
<1>8. /\ p.items \in SUBSET S /\ p.hasNext \in BOOLEAN
      /\ IsFiniteSet(p.items) /\ Cardinality(p.items) <= l
      /\ n = l + 1 =>
           /\ \A d \in S : Place(d, S) \in o..(o + l - 1) => d \in p.items
           /\ ~p.hasNext => \A d \in S : Place(d, S) < o + l
  BY <1>1, <1>6, <1>7, PageRows
<1>9. l < PageCap =>
           /\ \A d \in S : Place(d, S) \in ((page - 1) * l)..((page - 1) * l + l - 1) => d \in p.items
           /\ ~p.hasNext => \A d \in S : Place(d, S) < (page - 1) * l + l
  BY <1>2, <1>4, <1>8
<1> QED BY <1>8, <1>9 DEF S, p
-----------------------------------------------------------------------------
(***************************************************************************)
(* What the steps of the store keep                                        *)
(***************************************************************************)

(* A device stays, with its place in the order; retired is for good, and   *)
(* an active one is retired or stays active.                               *)
DevicesStay ==
  /\ Existing \subseteq Existing'
  /\ \A d \in Existing :
       /\ device'[d].created = device[d].created
       /\ device[d].status = "retired" => device'[d].status = "retired"
       /\ device[d].status = "active" => device'[d].status \in {"active", "retired"}

LEMMA CreateDeviceStays ==
  ASSUME Devices, NEW d \in Device, CreateDevice(d)
  PROVE  Devices' /\ DevicesStay
<1>1. d \notin Existing /\ Cardinality(Existing) \in Nat
  BY FS_CardinalityType DEF CreateDevice, Existing, Devices
<1>2. PICK n \in Nat : n = Cardinality(Existing)
  BY <1>1
<1> DEFINE row == [status |-> "pending", created |-> n]
<1>3. row \in DeviceRow /\ row # None
  BY NoneIsNoRow DEF DeviceRow
<1>4. device' = [device EXCEPT ![d] = row]
  BY <1>2 DEF CreateDevice
<1>5. device' \in [Device -> DeviceRow \cup {None}]
  BY <1>3, <1>4 DEF Devices
<1>6. Existing' = Existing \cup {d}
  BY <1>3, <1>4 DEF Existing, Devices
<1>7. \A e \in Existing : device'[e] = device[e]
  BY <1>1, <1>4 DEF Existing, Devices
<1>8. IsFiniteSet(Existing') /\ Cardinality(Existing') = n + 1
  BY <1>1, <1>2, <1>6, FS_AddElement DEF Devices
<1>9. device'[d].created = n
  BY <1>4 DEF Devices
<1>10. ASSUME NEW e \in Existing' PROVE device'[e].created < n + 1
  <2>1. CASE e = d
    BY <1>9, <2>1
  <2>2. CASE e \in Existing
    <3>1. PICK q \in Nat : q = device[e].created /\ q < n
      BY <1>2, <2>2, RowsAreRows DEF Devices
    <3> QED BY <1>7, <2>2, <3>1
  <2> QED BY <1>6, <2>1, <2>2
<1>11. \A e \in Existing : device'[e].created = device[e].created /\ device[e].created # n
  <2> SUFFICES ASSUME NEW e \in Existing PROVE device'[e].created = device[e].created /\ device[e].created # n
    OBVIOUS
  <2>1. PICK q \in Nat : q = device[e].created /\ q < n
    BY <1>2, RowsAreRows DEF Devices
  <2> QED BY <1>7, <2>1
<1>12. \A e, f \in Existing' : device'[e].created = device'[f].created => e = f
  BY <1>6, <1>9, <1>11 DEF Devices
<1>13. Devices'
  BY <1>5, <1>8, <1>10, <1>12 DEF Devices
<1> QED BY <1>6, <1>7, <1>13 DEF DevicesStay

(* Steps that change a status alone. *)
LEMMA StatusStays ==
  ASSUME Devices, NEW d \in Existing, NEW s \in {"pending", "enrolled", "active", "retired"},
         device' = [device EXCEPT ![d].status = s],
         device[d].status = "retired" => s = "retired",
         device[d].status = "active" => s \in {"active", "retired"}
  PROVE  Devices' /\ DevicesStay /\ Existing' = Existing /\ device'[d].status = s
<1>1. d \in Device /\ device[d] \in DeviceRow /\ device[d].created \in Nat
  BY RowsAreRows
<1> DEFINE row == [device[d] EXCEPT !.status = s]
<1>2. device' = [device EXCEPT ![d] = row]
  OBVIOUS
<1>3. row \in DeviceRow /\ row.created = device[d].created /\ row.status = s /\ row # None
  BY <1>1, NoneIsNoRow DEF DeviceRow
<1> HIDE DEF row
<1>4. device' \in [Device -> DeviceRow \cup {None}]
  BY <1>2, <1>3 DEF Devices
<1>5. Existing' = Existing
  BY <1>2, <1>3 DEF Existing, Devices
<1>6. device'[d] = row /\ \A e \in Existing : e # d => device'[e] = device[e]
  BY <1>1, <1>2 DEF Existing, Devices
<1>7. \A e \in Existing : device'[e].created = device[e].created
  BY <1>3, <1>6
<1>8. Devices'
  BY <1>4, <1>5, <1>7 DEF Devices
<1> QED BY <1>3, <1>5, <1>6, <1>7, <1>8 DEF DevicesStay

(* A report that was stored stays where it is. *)
ReportsStay ==
  /\ Len(info) <= Len(info')
  /\ \A i \in DOMAIN info : i \in DOMAIN info' /\ info'[i] = info[i]

LEMMA SameReports ==
  ASSUME Devices, Infos, Devices', DevicesStay, info' = info, now' \in now..MaxTime
  PROVE  Infos' /\ ReportsStay
<1>1. ASSUME NEW i \in DOMAIN info'
      PROVE  info'[i].dev \in WithStatus({"active", "retired"})'
  <2>1. /\ info[i].dev \in Existing /\ device[info[i].dev].status \in {"active", "retired"}
        /\ info'[i] = info[i]
    BY <1>1 DEF Infos, WithStatus
  <2>2. info'[i].dev \in Existing' /\ device'[info'[i].dev].status \in {"active", "retired"}
    BY <2>1 DEF DevicesStay
  <2> QED BY <2>2 DEF WithStatus
<1>2. now' \in 0..MaxTime /\ info' \in Seq(ReportRow)
  BY DEF Infos
<1>3. Len(info) \in Nat
  BY DEF Infos
<1> QED BY <1>1, <1>2, <1>3 DEF Infos, ReportsStay

LEMMA StatusStepStays ==
  ASSUME Devices, Infos, NEW d \in Device, RetireDevice(d) \/ BindDevice(d) \/ TelemetryRoute(d)
  PROVE  Devices' /\ Infos' /\ DevicesStay /\ ReportsStay /\ now <= now'
<1>1. d \in Existing /\ now' = now /\ info' = info
  BY DEF RetireDevice, BindDevice, TelemetryRoute, UploadTelemetry, loadDeviceForSecret, WithStatus
<1>2. device[d].status \in {"pending", "enrolled", "active", "retired"}
  BY <1>1, RowsAreRows DEF DeviceRow
<1>3. Devices' /\ DevicesStay
  <2>1. CASE RetireDevice(d)
    BY <1>1, <2>1, StatusStays DEF RetireDevice
  <2>2. CASE BindDevice(d)
    BY <1>1, <2>2, StatusStays DEF BindDevice, WithStatus
  <2>3. CASE TelemetryRoute(d)
    <3>1. PICK s \in {"pending", "enrolled", "active", "retired"} :
            s = IF device[d].status = "enrolled" THEN "active" ELSE device[d].status
      BY <1>2
    <3>2. device' = [device EXCEPT ![d].status = s]
      BY <2>3, <3>1 DEF TelemetryRoute, UploadTelemetry, Activated
    <3> QED BY <1>1, <3>1, <3>2, StatusStays
  <2> QED BY <2>1, <2>2, <2>3
<1>4. now' \in now..MaxTime /\ now <= now'
  BY <1>1 DEF Infos
<1> QED BY <1>1, <1>3, <1>4, SameReports

LEMMA DeviceInfoStays ==
  ASSUME Devices, Infos, NEW d \in Device, DeviceInfoRoute(d)
  PROVE  Devices' /\ Infos' /\ DevicesStay /\ ReportsStay /\ now <= now'
<1>1. PICK req \in decodeUploadRequest : Upload(d, req)
  BY DEF DeviceInfoRoute
<1>2. d \in Existing /\ device[d].status \in {"enrolled", "active"} /\ now' = now
  BY <1>1 DEF Upload, loadDeviceForSecret, WithStatus
<1>3. device' = [device EXCEPT ![d].status = "active"]
  <2>1. device[d] = [device[d] EXCEPT !.status = device[d].status]
    BY <1>2, RowsAreRows DEF DeviceRow
  <2> QED BY <1>1, <1>2, <2>1 DEF Upload, Activated, Devices
<1>4. Devices' /\ DevicesStay /\ Existing' = Existing /\ device'[d].status = "active"
  BY <1>2, <1>3, StatusStays
<1> DEFINE rec == [dev |-> d, at |-> req.at, level |-> req.level, named |-> req.named]
<1>5. rec \in ReportRow /\ rec.dev = d
  <2>1. PICK b \in Body : req = [b EXCEPT !.at = IF b.at = None THEN now ELSE b.at]
    BY DEF decodeUploadRequest
  <2>2. b \in [at : Int \cup {None}, level : Level \cup {None}, named : Device \cup {None}]
    BY BodyAssumption
  <2>3. now \in Int
    BY DEF Infos
  <2>4. req.at \in Int /\ req.level \in Level \cup {None} /\ req.named \in Device \cup {None}
    BY <2>1, <2>2, <2>3
  <2> QED BY <2>4 DEF ReportRow
<1> HIDE DEF rec
<1>6. info' = Append(info, rec)
  BY <1>1 DEF Upload, rec
<1>7. /\ info' \in Seq(ReportRow) /\ Len(info) \in Nat /\ Len(info') = Len(info) + 1
      /\ \A i \in 1..Len(info) : info'[i] = info[i]
      /\ info'[Len(info) + 1] = rec
  BY <1>5, <1>6 DEF Infos
<1>8. ReportsStay
  BY <1>7 DEF ReportsStay, Infos
<1>9. ASSUME NEW i \in DOMAIN info'
      PROVE  info'[i].dev \in WithStatus({"active", "retired"})'
  <2>1. CASE i = Len(info) + 1
    BY <1>2, <1>4, <1>5, <1>7, <2>1 DEF WithStatus
  <2>2. CASE i \in 1..Len(info)
    <3>1. /\ info[i].dev \in Existing /\ device[info[i].dev].status \in {"active", "retired"}
          /\ info'[i] = info[i]
      BY <1>7, <2>2 DEF Infos, WithStatus
    <3> QED BY <1>2, <1>4, <3>1 DEF DevicesStay, WithStatus
  <2> QED BY <1>7, <2>1, <2>2
<1>10. Infos' /\ now <= now'
  BY <1>2, <1>7, <1>9 DEF Infos
<1> QED BY <1>4, <1>8, <1>10

LEMMA StoreStays ==
  ASSUME Devices, Infos, StoreStep
  PROVE  Devices' /\ Infos' /\ DevicesStay /\ ReportsStay /\ now <= now'
<1>1. CASE Tick
  <2>1. device' = device /\ info' = info /\ now' \in now..MaxTime /\ now <= now'
    BY <1>1, PagesAssumption DEF Tick, Infos
  <2>2. Devices' /\ DevicesStay
    BY <2>1 DEF Devices, DevicesStay, Existing
  <2> QED BY <2>1, <2>2, SameReports
<1>2. CASE \E d \in Device : CreateDevice(d)
  <2>1. PICK d \in Device : CreateDevice(d)
    BY <1>2
  <2>2. info' = info /\ now' \in now..MaxTime /\ now <= now'
    BY <2>1 DEF CreateDevice, Infos
  <2> QED BY <2>1, <2>2, CreateDeviceStays, SameReports
<1>3. CASE \E d \in Device : RetireDevice(d) \/ BindDevice(d) \/ TelemetryRoute(d)
  BY <1>3, StatusStepStays
<1>4. CASE \E d \in Device : DeviceInfoRoute(d)
  BY <1>4, DeviceInfoStays
<1> QED BY <1>1, <1>2, <1>3, <1>4 DEF StoreStep
-----------------------------------------------------------------------------
(***************************************************************************)
(* The inductive invariant: a walk through the list                        *)
(***************************************************************************)

(* What a walk has to show and has not shown yet is still on a later page, *)
(* as long as nothing left the list: devices that come in between only     *)
(* push the others back.                                                   *)
Ahead ==
  /\ walk.due \subseteq Listing(walk.filter)
  /\ \A d \in walk.due \ walk.shown :
       walk.hasNext /\ Place(d, Listing(walk.filter)) >= walk.page * walk.limit

Walks ==
  /\ walk \in Walk \cup {None}
  /\ walk # None =>
       /\ IsFiniteSet(walk.shown) /\ Cardinality(walk.shown) <= walk.page * walk.limit
       /\ ~walk.left /\ walk.limit < PageCap => Ahead

LEMMA OpensWalks ==
  ASSUME Devices, NEW f \in Listed, NEW l \in Limit, Opens(f, l)
  PROVE  Walks'
<1> PICK page \in Nat \ {0} : page = 1
  OBVIOUS
<1>1. PICK k \in 1..PageCap : listPaginationParams(page, l) = [limit |-> k + 1, offset |-> (page - 1) * k]
  BY PageParams, PagesAssumption
<1>2. k \in Nat \ {0} /\ PageCap \in Nat
  BY <1>1, PagesAssumption
<1>3. listPaginationParams(page, k) = [limit |-> k + 1, offset |-> (page - 1) * k]
  BY <1>2, PageParams
<1>4. devices(f, 1, l) = devices(f, page, k)
  BY <1>1, <1>3 DEF devices
<1> DEFINE S == Listing(f)
           p == devices(f, page, k)
           w == [filter |-> f, limit |-> k, page |-> 1, shown |-> p.items, hasNext |-> p.hasNext,
                 due |-> S, left |-> FALSE]
<1>5. /\ p.items \in SUBSET S /\ p.hasNext \in BOOLEAN
      /\ IsFiniteSet(p.items) /\ Cardinality(p.items) <= k
      /\ k < PageCap =>
           /\ \A d \in S : Place(d, S) \in 0..(k - 1) => d \in p.items
           /\ ~p.hasNext => \A d \in S : Place(d, S) < k
  <2> PICK o \in Nat : o = (page - 1) * k /\ o = 0
    BY <1>2
  <2> HIDE DEF S, p
  <2>1. /\ p.items \in SUBSET S /\ p.hasNext \in BOOLEAN
        /\ IsFiniteSet(p.items) /\ Cardinality(p.items) <= k
        /\ k < PageCap =>
             /\ \A d \in S : Place(d, S) \in ((page - 1) * k)..((page - 1) * k + k - 1) => d \in p.items
             /\ ~p.hasNext => \A d \in S : Place(d, S) < (page - 1) * k + k
    BY PageOf DEF S, p
  <2>2. /\ ((page - 1) * k)..((page - 1) * k + k - 1) = 0..(k - 1)
        /\ (page - 1) * k + k = k
    BY <1>2
  <2> QED BY <2>1, <2>2
<1>6. listPaginationParams(1, l).limit - 1 = k
  BY <1>1, <1>2
<1>7. walk' = w /\ device' = device /\ info' = info /\ now' = now
  BY <1>4, <1>6 DEF Opens, Listing, storeVars
<1>8. S \in SUBSET Existing /\ S \in SUBSET Device
  BY DEF Listing, Existing
<1>9. \A d \in S : Place(d, S) \in Nat
  <2> HIDE DEF S
  <2>1. \A d \in S : Place(d, S) \in 0..(Cardinality(S) - 1)
    BY <1>8, Places
  <2>2. Cardinality(S) \in Nat
    BY <1>8, Places
  <2> QED BY <2>1, <2>2
<1>10. (Listing(walk.filter))' = S /\ \A d \in S : (Place(d, Listing(walk.filter)))' = Place(d, S)
  <2>1. (Listing(walk.filter))' = S
    BY <1>7 DEF Listing, Existing, Matches, Stale, Low, Lateral, Reports, Newer
  <2> HIDE DEF S
  <2>2. \A d \in S : (Place(d, Listing(walk.filter)))' = Place(d, S)
    BY <1>7, <2>1 DEF Place, CreatedLater
  <2> QED BY <2>1, <2>2
<1> HIDE DEF S, p
<1>11. w \in Walk /\ w # None
  <2> PICK b \in BOOLEAN : b = p.hasNext
    BY <1>5, Zenon
  <2>1. k \in 1..PageCap /\ 1 \in Nat \ {0} /\ p.items \in SUBSET Device /\ S \in SUBSET Device
    BY <1>1, <1>5, <1>8
  <2>2. w \in Walk
    BY <2>1 DEF Walk
  <2> QED BY <2>2, NoneIsNoWalk
<1>12. k < PageCap => \A d \in S \ p.items : p.hasNext /\ Place(d, S) >= 1 * k
  <2> SUFFICES ASSUME k < PageCap, NEW d \in S, d \notin p.items PROVE p.hasNext /\ Place(d, S) >= 1 * k
    OBVIOUS
  <2>1. PICK q \in Nat : q = Place(d, S)
    BY <1>9
  <2>2. ~(q \in 0..(k - 1))
    BY <1>5, <2>1
  <2>3. q >= k /\ ~(q < k)
    BY <1>2, <2>2
  <2>4. p.hasNext
    BY <1>5, <2>1, <2>3
  <2> QED BY <1>2, <2>1, <2>3, <2>4
<1>13. Cardinality(p.items) <= 1 * k
  BY <1>2, <1>5
<1>14. /\ w.filter = f /\ w.limit = k /\ w.page = 1 /\ w.shown = p.items /\ w.due = S
       /\ w.hasNext = p.hasNext
  OBVIOUS
<1> HIDE DEF w
<1>15. k < PageCap => Ahead'
  BY <1>7, <1>10, <1>12, <1>14 DEF Ahead
<1> QED BY <1>5, <1>7, <1>11, <1>13, <1>14, <1>15 DEF Walks

LEMMA PagerWalks ==
  ASSUME Devices, Walks, pager
  PROVE  Walks'
<1>1. walk \in Walk /\ walk # None /\ device' = device /\ info' = info /\ now' = now
  BY DEF pager, Walks, storeVars
<1> PICK page \in Nat \ {0} : page = walk.page
  BY <1>1 DEF Walk
<1> PICK l \in 1..PageCap : l = walk.limit
  BY <1>1 DEF Walk
<1> PICK more \in Nat \ {0} : more = page + 1
  OBVIOUS
<1>2. l \in Nat \ {0} /\ PageCap \in Nat
  BY PagesAssumption
<1> DEFINE S == Listing(walk.filter)
           p == devices(walk.filter, more, l)
           shown == walk.shown
           w == [walk EXCEPT !.page = more, !.shown = @ \cup p.items, !.hasNext = p.hasNext]
<1>3. walk' = w
  BY DEF pager
<1>4. /\ w = [walk EXCEPT !.page = more, !.shown = shown \cup p.items, !.hasNext = p.hasNext]
      /\ w.filter = walk.filter /\ w.limit = l /\ w.page = more /\ w.shown = shown \cup p.items
      /\ w.due = walk.due /\ w.hasNext = p.hasNext /\ w.left = walk.left
  BY <1>1 DEF Walk
<1>5. PICK o \in Nat : o = page * l /\ o = (more - 1) * l /\ o + l = more * l
  BY <1>2
<1>6. /\ p.items \in SUBSET S /\ p.hasNext \in BOOLEAN
      /\ IsFiniteSet(p.items) /\ Cardinality(p.items) <= l
      /\ l < PageCap =>
           /\ \A d \in S : Place(d, S) \in o..(o + l - 1) => d \in p.items
           /\ ~p.hasNext => \A d \in S : Place(d, S) < o + l
  <2> HIDE DEF S, p
  <2>1. /\ p.items \in SUBSET S /\ p.hasNext \in BOOLEAN
        /\ IsFiniteSet(p.items) /\ Cardinality(p.items) <= l
        /\ l < PageCap =>
             /\ \A d \in S : Place(d, S) \in ((more - 1) * l)..((more - 1) * l + l - 1) => d \in p.items
             /\ ~p.hasNext => \A d \in S : Place(d, S) < (more - 1) * l + l
    BY PageOf DEF S, p
  <2> QED BY <1>5, <2>1
<1>7. S \in SUBSET Existing /\ S \in SUBSET Device
  BY DEF Listing, Existing
<1>8. \A d \in S : Place(d, S) \in Nat
  <2> HIDE DEF S
  <2>1. (\A d \in S : Place(d, S) \in 0..(Cardinality(S) - 1)) /\ Cardinality(S) \in Nat
    BY <1>7, Places
  <2> QED BY <2>1
<1>9. (Listing(walk.filter))' = S /\ \A d \in S : (Place(d, Listing(walk.filter)))' = Place(d, S)
  <2>1. (Listing(walk.filter))' = S
    BY <1>1, <1>3, <1>4 DEF Listing, Existing, Matches, Stale, Low, Lateral, Reports, Newer
  <2> HIDE DEF S
  <2>2. \A d \in S : (Place(d, Listing(walk.filter)))' = Place(d, S)
    BY <1>1, <2>1 DEF Place, CreatedLater
  <2> QED BY <2>1, <2>2
<1> HIDE DEF S, p, w
<1>10. w \in Walk /\ w # None
  <2> PICK b \in BOOLEAN : b = p.hasNext
    BY <1>6, Zenon
  <2>1. shown \cup p.items \in SUBSET Device
    BY <1>1, <1>6, <1>7 DEF Walk
  <2>2. w \in Walk
    BY <1>1, <1>4, <2>1 DEF Walk
  <2> QED BY <2>2, NoneIsNoWalk
<1>11. IsFiniteSet(w.shown) /\ Cardinality(w.shown) <= w.page * w.limit
  <2>1. IsFiniteSet(shown) /\ Cardinality(shown) <= o
    BY <1>1, <1>5 DEF Walks
  <2> HIDE DEF shown
  <2>2. /\ IsFiniteSet(shown \cup p.items) /\ IsFiniteSet(shown \cap p.items)
        /\ Cardinality(shown \cup p.items)
             = Cardinality(shown) + Cardinality(p.items) - Cardinality(shown \cap p.items)
    BY <1>6, <2>1, FS_Union, FS_Intersection
  <2>3. PICK a \in Nat, b \in Nat, c \in Nat :
          a = Cardinality(shown) /\ b = Cardinality(p.items) /\ c = Cardinality(shown \cap p.items)
    BY <1>6, <2>1, <2>2, FS_CardinalityType
  <2>4. Cardinality(shown \cup p.items) <= o + l
    BY <1>6, <2>1, <2>2, <2>3
  <2> QED BY <1>4, <1>5, <2>2, <2>4
<1>12. ASSUME ~walk.left, l < PageCap PROVE Ahead'
  <2>1. Ahead
    BY <1>1, <1>12 DEF Walks
  <2>2. ASSUME NEW d \in walk.due \ w.shown PROVE p.hasNext /\ Place(d, S) >= more * l
    <3>1. d \in S /\ d \notin p.items
      BY <1>4, <2>1, <2>2 DEF Ahead, S
    <3>2. PICK q \in Nat : q = Place(d, S)
      BY <1>8, <3>1
    <3>3. q >= o
      BY <1>4, <1>5, <2>1, <2>2, <3>2 DEF Ahead, S
    <3>4. q >= o + l /\ ~(q < o + l)
      BY <1>2, <1>6, <1>12, <3>1, <3>2, <3>3
    <3>5. p.hasNext
      BY <1>6, <1>12, <3>1, <3>2, <3>4
    <3> QED BY <1>5, <3>2, <3>4, <3>5
  <2>3. walk.due \subseteq S
    BY <2>1 DEF Ahead, S
  <2> QED BY <1>3, <1>4, <1>9, <2>2, <2>3 DEF Ahead
<1> QED BY <1>3, <1>4, <1>10, <1>11, <1>12 DEF Walks

LEMMA StoreWalks ==
  ASSUME Devices, Infos, Walks, StoreStep, Watches
  PROVE  Walks'
<1>1. Devices' /\ DevicesStay
  BY StoreStays
<1>2. CASE walk = None
  BY <1>2 DEF Watches, Walks
<1>3. ASSUME walk # None PROVE Walks'
  <2> DEFINE lost == \E f \in Listed, d \in Device :
                       f = walk.filter /\ Matches(d, f) /\ ~Matches(d, f)'
  <2>1. walk \in Walk
    BY <1>3 DEF Walks
  <2>2. walk' = [walk EXCEPT !.left = walk.left \/ lost]
    BY <1>3, <2>1 DEF Watches, Walk
  <2>3. PICK b \in BOOLEAN : b = (walk.left \/ lost)
    BY Zenon
  <2>4. walk' = [walk EXCEPT !.left = b]
    BY <2>2, <2>3, Zenon
  <2>5. /\ walk' \in Walk /\ walk'.left = b
        /\ walk'.filter = walk.filter /\ walk'.limit = walk.limit /\ walk'.page = walk.page
        /\ walk'.shown = walk.shown /\ walk'.due = walk.due /\ walk'.hasNext = walk.hasNext
    BY <2>1, <2>4 DEF Walk
  <2>6. walk' # None
    BY <2>5, NoneIsNoWalk
  <2>7. ASSUME ~b, walk.limit < PageCap PROVE Ahead'
    <3>1. Ahead
      BY <1>3, <2>3, <2>7, Zenon DEF Walks
    <3> PICK f \in Listed : f = walk.filter
      BY <2>1 DEF Walk
    <3>2. \A d \in Device : Matches(d, f) => Matches(d, f)'
      BY <2>3, <2>7, Zenon
    <3> DEFINE S == Listing(walk.filter)
               R == (Listing(walk.filter))'
    <3>3. S \subseteq R
      <4> SUFFICES ASSUME NEW d \in Device, d \in Existing, Matches(d, walk.filter)
                   PROVE  d \in (Listing(walk.filter))'
        BY DEF Listing, Existing
      <4>1. d \in Existing' /\ Matches(d, f)'
        BY <1>1, <3>2 DEF DevicesStay
      <4> QED BY <2>5, <4>1 DEF Listing, Matches
    <3>4. R \subseteq Existing' /\ S \subseteq Existing
      BY DEF Listing
    <3> HIDE DEF S, R
    <3>5. ASSUME NEW d \in S
          PROVE  Place(d, S) \in Nat /\ (Place(d, Listing(walk.filter)))' \in Nat
                 /\ Place(d, S) <= (Place(d, Listing(walk.filter)))'
      <4> DEFINE T == {e \in S : CreatedLater(e, d)}
                 U == {e \in R : CreatedLater(e, d)'}
      <4>1. Place(d, S) = Cardinality(T) /\ (Place(d, Listing(walk.filter)))' = Cardinality(U)
        BY DEF Place, R
      <4>2. T \subseteq U /\ U \subseteq Existing'
        BY <1>1, <3>3, <3>4 DEF CreatedLater, DevicesStay
      <4>3. IsFiniteSet(Existing')
        BY <1>1 DEF Devices
      <4> HIDE DEF T, U
      <4>4. IsFiniteSet(T) /\ IsFiniteSet(U) /\ Cardinality(T) <= Cardinality(U)
        BY <4>2, <4>3, FS_Subset
      <4> QED BY <4>1, <4>4, FS_CardinalityType
    <3>6. ASSUME NEW d \in walk.due \ walk.shown
          PROVE  walk.hasNext /\ (Place(d, Listing(walk.filter)))' >= walk.page * walk.limit
      <4>1. d \in S /\ walk.hasNext /\ Place(d, S) >= walk.page * walk.limit
        BY <3>1, <3>6 DEF Ahead, S
      <4>2. PICK n \in Int : n = walk.page * walk.limit
        BY <2>1, PagesAssumption DEF Walk
      <4> QED BY <3>5, <4>1, <4>2
    <3>7. walk.due \subseteq R
      BY <3>1, <3>3 DEF Ahead, S
    <3> QED BY <2>5, <3>6, <3>7 DEF Ahead, R
  <2>8. ~walk'.left => ~b
    BY <2>5, Zenon
  <2> QED BY <1>3, <2>1, <2>5, <2>6, <2>7, <2>8 DEF Walks
<1> QED BY <1>2, <1>3
-----------------------------------------------------------------------------
(***************************************************************************)
(* The newest report                                                       *)
(***************************************************************************)
LEMMA FirstNumbers ==
  ASSUME NEW n \in Nat
  PROVE  IsFiniteSet(1..n) /\ Cardinality(1..n) = n
<1>1. 1 \in Int /\ n \in Int
  OBVIOUS
<1>2. IsFiniteSet(1..n) /\ Cardinality(1..n) = IF 1 > n THEN 0 ELSE n - 1 + 1
  BY <1>1, FS_Interval, Zenon
<1> QED BY <1>2

LEMMA LargestExists ==
  ASSUME NEW n \in Nat, NEW S \in SUBSET (0..n), S # {}
  PROVE  \E m \in S : \A k \in S : k <= m
<1> DEFINE T == {n - k : k \in S}
           R == OpToRel(<, Nat)
<1>1. T \in SUBSET Nat /\ T # {}
  <2>1. \A k \in S : n - k \in Nat
    OBVIOUS
  <2>2. PICK k \in S : TRUE
    OBVIOUS
  <2>3. n - k \in T
    OBVIOUS
  <2> QED BY <2>1, <2>3
<1>2. PICK t \in T : \A k \in T : ~(<<k, t>> \in R)
  <2>1. IsWellFoundedOn(R, Nat) BY NatLessThanWellFounded
  <2> HIDE DEF R, T
  <2> QED BY <1>1, <2>1, WFMin
<1>3. \A k \in T : ~(k < t)
  BY <1>1, <1>2 DEF OpToRel
<1>4. PICK m \in S : t = n - m
  OBVIOUS
<1>5. ASSUME NEW k \in S PROVE k <= m
  <2>1. n - k \in T /\ k \in Nat /\ m \in Nat
    OBVIOUS
  <2>2. ~(n - k < n - m)
    BY <1>3, <1>4, <2>1
  <2> QED BY <2>1, <2>2
<1> QED BY <1>5

(* Reports are ordered by their time, and by their place among equals. *)
LEMMA RowsOfReports ==
  ASSUME Infos, NEW i \in DOMAIN info
  PROVE  i \in Nat /\ info[i] \in ReportRow /\ info[i].at \in Int /\ info[i] # None
<1>1. i \in Nat /\ info[i] \in ReportRow
  BY DEF Infos
<1>2. info[i] # None /\ info[i].at \in Int
  BY <1>1, NoneIsNoRow DEF ReportRow
<1> QED BY <1>1, <1>2

LEMMA NewerIsAnOrder ==
  ASSUME Infos
  PROVE  /\ \A i, j \in DOMAIN info : Newer(i, j) => ~Newer(j, i) /\ info[j].at <= info[i].at
         /\ \A i, j \in DOMAIN info : Newer(i, j) \/ Newer(j, i) \/ i = j
<1> SUFFICES ASSUME NEW i \in DOMAIN info, NEW j \in DOMAIN info
             PROVE  /\ Newer(i, j) => ~Newer(j, i) /\ info[j].at <= info[i].at
                    /\ Newer(i, j) \/ Newer(j, i) \/ i = j
  OBVIOUS
<1>1. i \in Nat /\ j \in Nat
  BY RowsOfReports
<1>2. PICK p \in Int : p = info[i].at
  BY RowsOfReports
<1>3. PICK q \in Int : q = info[j].at
  BY RowsOfReports
<1> QED BY <1>1, <1>2, <1>3 DEF Newer

(* Dates have no bound, but of some reports one is the latest: the one     *)
(* that has the fewest after it.                                           *)
After(I, i) == {j \in I : info[j].at > info[i].at}

LEMMA LatestExists ==
  ASSUME Infos, NEW I \in SUBSET DOMAIN info, I # {}
  PROVE  \E i \in I : \A j \in I : info[j].at <= info[i].at
<1>1. IsFiniteSet(I)
  <2>1. DOMAIN info = 1..Len(info) /\ Len(info) \in Nat
    BY DEF Infos
  <2> QED BY <2>1, FirstNumbers, FS_Subset
<1>2. ASSUME NEW i \in I
      PROVE  IsFiniteSet(After(I, i)) /\ Cardinality(After(I, i)) \in Nat
  BY <1>1, FS_Subset, FS_CardinalityType DEF After
<1> DEFINE T == {Cardinality(After(I, i)) : i \in I}
           R == OpToRel(<, Nat)
<1>3. T \in SUBSET Nat /\ T # {}
  BY <1>2
<1>4. PICK t \in T : \A k \in T : ~(<<k, t>> \in R)
  <2>1. IsWellFoundedOn(R, Nat) BY NatLessThanWellFounded
  <2> HIDE DEF R, T
  <2> QED BY <1>3, <2>1, WFMin
<1>5. \A k \in T : ~(k < t)
  BY <1>3, <1>4 DEF OpToRel
<1>6. PICK i \in I : t = Cardinality(After(I, i))
  OBVIOUS
<1>7. ASSUME NEW j \in I, ~(info[j].at <= info[i].at) PROVE FALSE
  <2>1. \A k \in I : info[k].at \in Int
    BY RowsOfReports
  <2>2. j \in After(I, i) /\ j \notin After(I, j)
    BY <1>7, <2>1 DEF After
  <2>3. After(I, j) \in SUBSET After(I, i)
    <3>1. ASSUME NEW k \in After(I, j) PROVE k \in After(I, i)
      <4>1. PICK a \in Int : a = info[i].at BY <2>1
      <4>2. PICK b \in Int : b = info[j].at BY <2>1
      <4>3. PICK c \in Int : c = info[k].at BY <2>1 DEF After
      <4> QED BY <1>7, <4>1, <4>2, <4>3 DEF After
    <3> QED BY <3>1
  <2> DEFINE U == After(I, i)
             V == After(I, j)
             W == U \ {j}
  <2>4. V \in SUBSET W
    BY <2>2, <2>3
  <2>5. IsFiniteSet(U) /\ j \in U
    BY <1>2, <2>2
  <2>6. Cardinality(V) \in Nat /\ Cardinality(V) \in T /\ Cardinality(U) \in Nat /\ t = Cardinality(U)
    BY <1>2, <1>6
  <2> HIDE DEF U, V, T
  <2>7. IsFiniteSet(W) /\ Cardinality(W) = Cardinality(U) - 1
    BY <2>5, FS_RemoveElement
  <2> HIDE DEF W
  <2>8. Cardinality(V) <= Cardinality(W)
    BY <2>4, <2>7, FS_Subset
  <2>9. Cardinality(V) < t
    BY <2>6, <2>7, <2>8
  <2> QED BY <1>5, <2>6, <2>9
<1> QED BY <1>7

LEMMA NewestExists ==
  ASSUME Infos, NEW I \in SUBSET DOMAIN info, I # {}
  PROVE  \E i \in I : \A j \in I \ {i} : Newer(i, j)
<1>1. PICK l \in I : \A j \in I : info[j].at <= info[l].at
  BY LatestExists
<1>2. PICK t \in Int : t = info[l].at
  BY RowsOfReports
<1> DEFINE Ties == {i \in I : info[i].at = t}
<1>3. Len(info) \in Nat /\ Ties \in SUBSET (0..Len(info)) /\ Ties # {}
  BY <1>2, RowsOfReports DEF Infos
<1>4. PICK i \in Ties : \A k \in Ties : k <= i
  <2> HIDE DEF Ties
  <2> QED BY <1>3, LargestExists
<1>5. ASSUME NEW j \in I \ {i} PROVE Newer(i, j)
  <2>1. PICK q \in Int : q = info[j].at /\ q <= t
    BY <1>1, <1>2, RowsOfReports
  <2>2. i \in Nat /\ j \in Nat /\ info[i].at = t
    BY RowsOfReports
  <2>3. q = t => j <= i
    BY <1>4, <2>1
  <2>4. t > q \/ (t = q /\ i > j)
    BY <1>5, <2>1, <2>2, <2>3
  <2> QED BY <2>1, <2>2, <2>4 DEF Newer
<1> QED BY <1>5

(* The report beside a row, and the latest one of a device, are the same.  *)
LEMMA LatestIsOne ==
  ASSUME Infos, NEW d \in Existing, Reports(d) # {}
  PROVE  \E i \in Reports(d) :
           /\ \A j \in Reports(d) : info[j].at <= info[i].at
           /\ Lateral(d) = info[i]
           /\ ListLatestByDeviceIDs(Existing)[d] = info[i]
<1>1. Reports(d) \in SUBSET DOMAIN info
  BY DEF Reports
<1>2. \E k \in Reports(d) : \A j \in Reports(d) \ {k} : Newer(k, j)
  BY <1>1, NewestExists
<1> DEFINE i == CHOOSE k \in Reports(d) : \A j \in Reports(d) \ {k} : Newer(k, j)
           l == CHOOSE k \in Reports(d) : \A j \in Reports(d) : ~Newer(j, k)
<1>3. i \in Reports(d) /\ \A j \in Reports(d) \ {i} : Newer(i, j)
  BY <1>2
<1>4. \E k \in Reports(d) : \A j \in Reports(d) : ~Newer(j, k)
  <2>1. ~Newer(i, i)
    BY <1>1, <1>3, NewerIsAnOrder
  <2> HIDE DEF i
  <2> QED BY <1>1, <1>3, <2>1, NewerIsAnOrder
<1>5. l \in Reports(d) /\ \A j \in Reports(d) : ~Newer(j, l)
  BY <1>4
<1>6. Lateral(d) = info[l] /\ ListLatestByDeviceIDs(Existing)[d] = info[i]
  BY DEF Lateral, ListLatestByDeviceIDs
<1> HIDE DEF i, l
<1>7. i = l
  BY <1>3, <1>5
<1>8. ASSUME NEW j \in Reports(d) PROVE info[j].at <= info[i].at
  <2>1. CASE j = i
    BY <1>1, <1>3, <2>1, RowsOfReports
  <2>2. CASE j # i
    BY <1>1, <1>3, <2>2, NewerIsAnOrder
  <2> QED BY <2>1, <2>2
<1> QED BY <1>3, <1>6, <1>7, <1>8

(* The largest of the times that were read, if any was.                    *)
LEMMA LatestTime ==
  ASSUME Infos, NEW d \in Device, NEW records \in SUBSET DOMAIN info
  PROVE  LET m == latestDeviceInfoByDevice(records)[d]
             I == records \cap ReportsOn(d)
         IN  /\ I = {} => m = None
             /\ I # {} => /\ m # None /\ m \in Int
                          /\ \E i \in I : m = info[i].at
                          /\ \A i \in I : info[i].at <= m
<1> DEFINE I == records \cap ReportsOn(d)
           Times == TimesOf(d, records)
           m == latestDeviceInfoByDevice(records)[d]
<1>1. Times = {info[i].at : i \in I}
  BY DEF TimesOf
<1>2. m = IF Times = {} THEN None ELSE Max(Times)
  BY DEF latestDeviceInfoByDevice
<1>3. CASE I = {}
  BY <1>1, <1>2, <1>3
<1>4. ASSUME I # {}
      PROVE  m # None /\ m \in Int /\ (\E i \in I : m = info[i].at) /\ \A i \in I : info[i].at <= m
  <2>1. Times \in SUBSET Int /\ Times # {}
    BY <1>1, <1>4, RowsOfReports
  <2>2. \E t \in Times : \A k \in Times : k <= t
    <3>1. I \in SUBSET DOMAIN info
      OBVIOUS
    <3>2. PICK i \in I : \A j \in I : info[j].at <= info[i].at
      <4> HIDE DEF I
      <4> QED BY <1>4, <3>1, LatestExists
    <3> QED BY <1>1, <3>2
  <2> HIDE DEF Times, m
  <2>3. \E t \in Times : \A k \in Times : t >= k
    <3>1. PICK t \in Times : \A k \in Times : k <= t
      BY <2>2
    <3>2. \A k \in Times : t >= k
      BY <2>1, <3>1
    <3> QED BY <3>2
  <2>4. Max(Times) \in Times /\ \A k \in Times : Max(Times) >= k
    BY <2>3 DEF Max
  <2>5. m \in Times /\ m \in Int /\ \A k \in Times : k <= m
    <3>1. m = Max(Times)
      BY <1>2, <2>1
    <3>2. m \in Times /\ \A k \in Times : m >= k
      BY <2>4, <3>1
    <3> QED BY <2>1, <3>2
  <2>6. m # None
    BY <2>5, NoneIsNoRow
  <2> QED BY <1>1, <2>5, <2>6
<1> QED BY <1>3, <1>4

(* A window that is large enough reads every report. *)
LEMMA WindowOfAll ==
  ASSUME Infos, Len(info) <= Window
  PROVE  Search(Window) = DOMAIN info
<1>1. DOMAIN info = 1..Len(info) /\ Len(info) \in Nat /\ Window \in Nat
  BY ChartsAssumption DEF Infos
<1>2. IsFiniteSet(DOMAIN info) /\ Cardinality(DOMAIN info) = Len(info)
  BY <1>1, FirstNumbers
<1>3. ASSUME NEW i \in DOMAIN info PROVE Cardinality({j \in DOMAIN info : Newer(j, i)}) < Window
  <2> DEFINE T == {j \in DOMAIN info : Newer(j, i)}
             R == DOMAIN info \ {i}
  <2>1. T \in SUBSET R
    BY NewerIsAnOrder
  <2>2. IsFiniteSet(R) /\ Cardinality(R) = Len(info) - 1
    BY <1>2, <1>3, FS_RemoveElement
  <2> HIDE DEF T, R
  <2>3. IsFiniteSet(T) /\ Cardinality(T) <= Cardinality(R)
    BY <2>1, <2>2, FS_Subset
  <2>4. Cardinality(T) \in Nat
    BY <2>3, FS_CardinalityType
  <2>5. Cardinality(T) < Window
    BY <1>1, <2>2, <2>3, <2>4
  <2> QED BY <2>5 DEF T
<1> QED BY <1>3 DEF Search

-----------------------------------------------------------------------------
(***************************************************************************)
(* The list, its filters and the overview speak of the same report.        *)
(***************************************************************************)
LEMMA ReadersAgree ==
  ASSUME Devices, Infos
  PROVE  FiltersAgree
<1>1. now \in Nat /\ Day \in Nat /\ StaleAfter \in Nat /\ StaleAfter >= Day
  BY PagesAssumption, ChartsAssumption DEF Infos
<1>2. ASSUME NEW d \in Existing
      PROVE  /\ MarkedStale(d) => Matches(d, "stale")
             /\ Matches(d, "low") => MarkedLow(d)
             /\ MarkedLow(d) => Matches(d, "low") \/ Lateral(d).level.form = "text"
  <2>1. CASE Reports(d) = {}
    BY <2>1 DEF MarkedStale, MarkedLow, ListLatestByDeviceIDs, Matches, Low, Lateral
  <2>2. CASE Reports(d) # {}
    <3>1. PICK i \in Reports(d) : Lateral(d) = info[i] /\ ListLatestByDeviceIDs(Existing)[d] = info[i]
      BY <2>2, LatestIsOne
    <3>2. i \in DOMAIN info /\ Lateral(d) # None
      BY <3>1, RowsOfReports DEF Reports
    <3>3. PICK t \in Int : t = info[i].at
      BY <3>2, RowsOfReports
    <3>4. d \in DOMAIN ListLatestByDeviceIDs(Existing)
      BY <2>2 DEF ListLatestByDeviceIDs
    <3>5. MarkedStale(d) => Stale(d)
      <4>1. (now - t > Day) => t <= now - Day
        BY <1>1
      <4> QED BY <3>1, <3>3, <4>1 DEF MarkedStale, lastOnlineInfo, Stale
    <3>6. /\ Low(d) => MarkedLow(d)
          /\ MarkedLow(d) => Low(d) \/ Lateral(d).level.form = "text"
      <4> PICK v : v = info[i].level
        OBVIOUS
      <4>1. v \in Battery \cup {None}
        BY <3>2, RowsOfReports, LevelAssumption DEF ReportRow
      <4>2. v # None => v.form \in {"number", "digits", "text"}
        BY <4>1 DEF Battery
      <4>3. MarkedLow(d) <=> v # None /\ v.value <= LowLevel
        BY <3>1, <3>4 DEF MarkedLow, batteryLevelInfo
      <4>4. Low(d) <=> v # None /\ v.form \in {"number", "digits"} /\ v.value <= LowLevel
        BY <3>1, <3>2 DEF Low
      <4> QED BY <3>1, <4>2, <4>3, <4>4
    <3> QED BY <3>5, <3>6 DEF Matches
  <2> QED BY <2>1, <2>2
<1>3. ASSUME Len(info) <= Window,
             NEW d \in countStaleActiveDevices([e \in ListActiveDevices |-> device[e].status],
                                               Search(Window), now)
      PROVE  Matches(d, "stale")
  <2> DEFINE records == DOMAIN info
             m == latestDeviceInfoByDevice(records)[d]
  <2>1. Search(Window) = records
    BY <1>3, WindowOfAll
  <2>2. d \in Existing /\ d \in Device /\ (m = None \/ now - m > StaleAfter)
    BY <1>3, <2>1 DEF countStaleActiveDevices, ListActiveDevices, WithStatus, Existing
  <2>3. Reports(d) \in SUBSET (records \cap ReportsOn(d)) /\ records \in SUBSET DOMAIN info
    BY DEF Reports, ReportsOn
  <2>4. CASE Reports(d) = {}
    BY <2>4 DEF Matches, Stale, Lateral
  <2>5. CASE Reports(d) # {}
    <3>1. PICK i \in Reports(d) : Lateral(d) = info[i] /\ \A j \in Reports(d) : info[j].at <= info[i].at
      BY <2>2, <2>5, LatestIsOne
    <3> HIDE DEF m, records
    <3>2. /\ m # None /\ m \in Int
          /\ \A j \in Reports(d) : info[j].at <= m
      <4>1. records \cap ReportsOn(d) # {}
        BY <2>3, <2>5
      <4> QED BY <2>2, <2>3, <4>1, LatestTime DEF m
    <3>3. PICK t \in Int : t = info[i].at
      BY <3>1, RowsOfReports DEF Reports
    <3>4. t <= now - Day
      BY <1>1, <2>2, <3>1, <3>2, <3>3
    <3> QED BY <3>1, <3>3, <3>4 DEF Matches, Stale
  <2> QED BY <2>4, <2>5
<1> QED BY <1>2, <1>3 DEF FiltersAgree
-----------------------------------------------------------------------------
(***************************************************************************)
(* Sums, and the charts made of them                                       *)
(***************************************************************************)
LEMMA OneToOne ==
  ASSUME NEW S, NEW T, NEW g \in [S -> T], IsFiniteSet(S) \/ IsFiniteSet(T),
         \A x, y \in S : g[x] = g[y] => x = y,
         \A t \in T : \E s \in S : g[s] = t
  PROVE  IsFiniteSet(S) /\ IsFiniteSet(T) /\ Cardinality(S) = Cardinality(T)
<1>1. g \in Injection(S, T) /\ g \in Surjection(S, T)
  BY DEF Injection, IsInjective, Surjection
<1>2. IsFiniteSet(S)
  BY <1>1, FS_Injection
<1>3. IsFiniteSet(T) /\ Cardinality(T) = Cardinality(S)
  BY <1>1, <1>2, FS_Surjection
<1> QED BY <1>2, <1>3

(* A finite set is numbered by a function from 1 up to its size. *)
LEMMA Numbered ==
  ASSUME NEW S, IsFiniteSet(S)
  PROVE  /\ Cardinality(S) \in Nat
         /\ \E b \in [1..Cardinality(S) -> S] :
              /\ \A i, j \in 1..Cardinality(S) : b[i] = b[j] => i = j
              /\ \A s \in S : \E i \in 1..Cardinality(S) : b[i] = s
<1>1. Cardinality(S) \in Nat /\ ExistsBijection(1..Cardinality(S), S)
  BY FS_CardinalityType
<1> DEFINE I == 1..Cardinality(S)
<1>2. PICK b : b \in Bijection(I, S)
  BY <1>1 DEF ExistsBijection
<1> HIDE DEF I
<1>3. /\ b \in [I -> S]
      /\ \A i, j \in I : b[i] = b[j] => i = j
      /\ \A s \in S : \E i \in I : b[i] = s
  BY <1>2 DEF Bijection, Injection, IsInjective, Surjection
<1> QED BY <1>1, <1>3 DEF I

LEMMA UnitsAre ==
  ASSUME NEW v
  PROVE  /\ \A i \in DOMAIN v : \A k \in 1..v[i] : <<i, k>> \in Units(v)
         /\ \A u \in Units(v) : \E i \in DOMAIN v : \E k \in 1..v[i] : u = <<i, k>>
<1>1. ASSUME NEW i \in DOMAIN v, NEW k \in 1..v[i] PROVE <<i, k>> \in Units(v)
  <2>1. <<i, k>> \in {i} \X (1..v[i])
    OBVIOUS
  <2> QED BY <2>1 DEF Units
<1>2. ASSUME NEW u \in Units(v) PROVE \E i \in DOMAIN v : \E k \in 1..v[i] : u = <<i, k>>
  <2>1. PICK i \in DOMAIN v : u \in {i} \X (1..v[i])
    BY DEF Units
  <2> QED BY <2>1
<1> QED BY <1>1, <1>2

Labelled(label, S, x) == {s \in S : label[s] = x}

(* Things counted by their label are each counted once. *)
LEMMA CountedOnce ==
  ASSUME NEW X, NEW S, IsFiniteSet(S), NEW label \in [S -> X],
         NEW counts, DOMAIN counts = X, \A x \in X : counts[x] = Cardinality(Labelled(label, S, x))
  PROVE  /\ \A x \in X : counts[x] \in 0..Cardinality(S)
         /\ Cardinality(S) \in Nat
         /\ IsFiniteSet(Units(counts)) /\ SumOf(counts) = Cardinality(S)
         /\ IsFiniteSet({x \in X : counts[x] > 0})
<1> DEFINE C(x) == {s \in S : label[s] = x}
<1>1. ASSUME NEW x \in X
      PROVE  /\ IsFiniteSet(C(x)) /\ counts[x] = Cardinality(C(x))
             /\ counts[x] \in Nat /\ counts[x] <= Cardinality(S)
  <2>1. C(x) \in SUBSET S /\ counts[x] = Cardinality(C(x))
    BY DEF Labelled
  <2> HIDE DEF C
  <2> QED BY <2>1, FS_Subset, FS_CardinalityType
<1>2. Cardinality(S) \in Nat
  BY FS_CardinalityType
<1>3. \A x \in X : counts[x] \in 0..Cardinality(S)
  <2> SUFFICES ASSUME NEW x \in X PROVE counts[x] \in 0..Cardinality(S)
    OBVIOUS
  <2>1. PICK k \in Nat : k = counts[x] /\ k <= Cardinality(S)
    BY <1>1
  <2> QED BY <1>2, <2>1
<1> DEFINE Numbers(x) == {b \in [1..counts[x] -> C(x)] :
                            /\ \A i, j \in 1..counts[x] : b[i] = b[j] => i = j
                            /\ \A s \in C(x) : \E i \in 1..counts[x] : b[i] = s}
           number == [x \in X |-> CHOOSE b \in Numbers(x) : TRUE]
<1>4. ASSUME NEW x \in X
      PROVE  /\ number[x] \in [1..counts[x] -> C(x)]
             /\ \A i, j \in 1..counts[x] : number[x][i] = number[x][j] => i = j
             /\ \A s \in C(x) : \E i \in 1..counts[x] : number[x][i] = s
  <2>1. \E b : b \in Numbers(x)
    <3> DEFINE n == Cardinality(C(x))
    <3> HIDE DEF C
    <3>1. IsFiniteSet(C(x)) /\ counts[x] = n
      BY <1>1
    <3>2. \E b \in [1..n -> C(x)] : /\ \A i, j \in 1..n : b[i] = b[j] => i = j
                                    /\ \A s \in C(x) : \E i \in 1..n : b[i] = s
      BY <3>1, Numbered
    <3> HIDE DEF n
    <3>3. PICK b \in [1..n -> C(x)] : /\ \A i, j \in 1..n : b[i] = b[j] => i = j
                                      /\ \A s \in C(x) : \E i \in 1..n : b[i] = s
      BY <3>2, Zenon
    <3>4. b \in Numbers(x)
      BY <3>1, <3>3
    <3> QED BY <3>4, Zenon
  <2>2. number[x] \in Numbers(x)
    <3> HIDE DEF Numbers
    <3> QED BY <2>1
  <2> HIDE DEF number, C
  <2> QED BY <2>2
<1> HIDE DEF number, Numbers
<1> DEFINE U == Units(counts)
           g == [u \in U |-> number[u[1]][u[2]]]
<1>5. ASSUME NEW u \in U
      PROVE  \E x \in X : \E k \in 1..counts[x] : u = <<x, k>> /\ g[u] = number[x][k] /\ g[u] \in C(x)
  <2> PICK x \in X : \E k \in 1..counts[x] : u = <<x, k>>
    BY <1>3, UnitsAre
  <2>1. PICK k \in 1..counts[x] : u = <<x, k>>
    OBVIOUS
  <2>2. g[u] = number[x][k] /\ number[x][k] \in C(x)
    <3> HIDE DEF U, C
    <3>1. number[x][k] \in C(x)
      BY <1>4
    <3> QED BY <2>1, <3>1
  <2> QED BY <2>1, <2>2
<1>6. g \in [U -> S]
  <2>1. \A u \in U : g[u] \in S
    <3> HIDE DEF U, g
    <3> QED BY <1>5
  <2> HIDE DEF U
  <2> QED BY <2>1
<1>7. ASSUME NEW u \in U, NEW w \in U, g[u] = g[w] PROVE u = w
  <2> HIDE DEF U, g
  <2> PICK x \in X : \E k \in 1..counts[x] : u = <<x, k>> /\ g[u] = number[x][k] /\ g[u] \in C(x)
    BY <1>5
  <2>1. PICK k \in 1..counts[x] : u = <<x, k>> /\ g[u] = number[x][k] /\ g[u] \in C(x)
    OBVIOUS
  <2> PICK y \in X : \E l \in 1..counts[y] : w = <<y, l>> /\ g[w] = number[y][l] /\ g[w] \in C(y)
    BY <1>5
  <2>2. PICK l \in 1..counts[y] : w = <<y, l>> /\ g[w] = number[y][l] /\ g[w] \in C(y)
    BY <1>5
  <2>3. x = y
    BY <1>7, <2>1, <2>2
  <2>4. k = l
    BY <1>4, <1>7, <2>1, <2>2, <2>3
  <2> QED BY <2>1, <2>2, <2>3, <2>4
<1>8. ASSUME NEW s \in S PROVE \E u \in U : g[u] = s
  <2>1. PICK x \in X : s \in C(x)
    OBVIOUS
  <2>2. PICK k \in 1..counts[x] : number[x][k] = s
    <3> HIDE DEF C
    <3> QED BY <1>4, <2>1
  <2>3. <<x, k>> \in U
    BY <1>3, UnitsAre
  <2>4. g[<<x, k>>] = s
    <3> HIDE DEF U
    <3> QED BY <2>2, <2>3
  <2> QED BY <2>3, <2>4
<1>9. IsFiniteSet(U) /\ Cardinality(U) = Cardinality(S)
  <2> HIDE DEF U, g
  <2> QED BY <1>6, <1>7, <1>8, OneToOne
<1>10. IsFiniteSet({x \in X : counts[x] > 0})
  <2> DEFINE L == {x \in X : counts[x] > 0}
             h == [x \in L |-> number[x][1]]
  <2>1. ASSUME NEW x \in L PROVE h[x] \in S /\ label[h[x]] = x
    <3>1. 1 \in 1..counts[x]
      <4>1. PICK k \in Nat : k = counts[x] /\ k > 0
        BY <1>1
      <4> QED BY <4>1
    <3>2. number[x][1] \in C(x)
      <4> HIDE DEF C
      <4> QED BY <1>4, <3>1
    <3> QED BY <3>2
  <2>2. h \in Injection(L, S)
    BY <2>1 DEF Injection, IsInjective
  <2> HIDE DEF h, L
  <2>3. IsFiniteSet(L)
    BY <2>2, FS_Injection
  <2> QED BY <2>3 DEF L
<1> QED BY <1>2, <1>3, <1>9, <1>10 DEF SumOf


LEMMA LargestOf ==
  ASSUME NEW n \in Nat, NEW S \in SUBSET (0..n), S # {}
  PROVE  Max(S) \in S /\ \A k \in S : k <= Max(S)
<1>1. PICK m \in S : \A k \in S : k <= m
  BY LargestExists
<1>2. \A k \in S : m >= k
  BY <1>1
<1>3. Max(S) \in S /\ \A k \in S : Max(S) >= k
  BY <1>2 DEF Max
<1> QED BY <1>3

LEMMA SmallestOf ==
  ASSUME NEW n \in Nat, NEW S \in SUBSET (0..n), S # {}
  PROVE  \E m \in S : \A k \in S : m <= k
<1> DEFINE T == {n - k : k \in S}
<1>1. T \in SUBSET (0..n) /\ T # {}
  <2>1. \A k \in S : n - k \in 0..n
    OBVIOUS
  <2>2. PICK k \in S : TRUE
    OBVIOUS
  <2>3. n - k \in T
    OBVIOUS
  <2> QED BY <2>1, <2>3
<1>2. PICK t \in T : \A k \in T : k <= t
  <2> HIDE DEF T
  <2> QED BY <1>1, LargestExists
<1>3. PICK m \in S : t = n - m
  OBVIOUS
<1>4. ASSUME NEW k \in S PROVE m <= k
  <2>1. n - k \in T
    OBVIOUS
  <2>2. n - k <= n - m
    BY <1>2, <1>3, <2>1
  <2> QED BY <2>2
<1> QED BY <1>4

ReachedBy(counts, labels, k) == {x \in labels : counts[x] >= k}

(* The slices, ordered by size, are the labels seen the other way round: a *)
(* slice i has k units just when i labels count k or more.                 *)
LEMMA SlicesOfSizes ==
  ASSUME NEW X, NEW bound \in Nat, NEW counts \in [X -> 0..bound],
         NEW labels, labels = {x \in X : counts[x] > 0}, IsFiniteSet(labels)
  PROVE  /\ Sizes(counts) \in Seq(Nat) /\ Len(Sizes(counts)) = Cardinality(labels)
         /\ \A i \in 1..Cardinality(labels), k \in Nat \ {0} :
              Sizes(counts)[i] >= k <=> Cardinality(ReachedBy(counts, labels, k)) >= i
<1> DEFINE Reach(k) == {x \in labels : counts[x] >= k}
           values == {counts[x] : x \in labels}
           V(i) == {n \in values : Cardinality(Reach(n)) >= i}
           n == Cardinality(labels)
           sizes == [i \in 1..n |-> Max(V(i))]
<1>1. Sizes(counts) = sizes
  BY DEF Sizes
<1>2. n \in Nat /\ values \in SUBSET (0..bound)
  BY FS_CardinalityType
<1>3. ASSUME NEW k \in Int PROVE IsFiniteSet(Reach(k)) /\ Cardinality(Reach(k)) \in Nat
  <2>1. Reach(k) \in SUBSET labels
    OBVIOUS
  <2> HIDE DEF Reach
  <2> QED BY <2>1, FS_Subset, FS_CardinalityType
<1>4. ASSUME NEW k \in Int, NEW l \in Int, k <= l
      PROVE  Cardinality(Reach(l)) <= Cardinality(Reach(k))
  <2>1. Reach(l) \in SUBSET Reach(k)
    <3> SUFFICES ASSUME NEW x \in Reach(l) PROVE x \in Reach(k)
      OBVIOUS
    <3>1. counts[x] \in Int /\ counts[x] >= l
      OBVIOUS
    <3> QED BY <1>4, <3>1
  <2>2. IsFiniteSet(Reach(k))
    BY <1>3
  <2> HIDE DEF Reach
  <2> QED BY <2>1, <2>2, FS_Subset
<1>5. ASSUME NEW i \in 1..n, NEW k \in Nat \ {0}, Cardinality(Reach(k)) >= i
      PROVE  \E m \in V(i) : m >= k
  <2> DEFINE S == {counts[x] : x \in Reach(k)}
  <2>1. S \in SUBSET (0..bound) /\ S # {}
    <3>1. Cardinality(Reach(k)) # 0
      BY <1>3, <1>5
    <3>2. Reach(k) # {}
      <4> HIDE DEF Reach
      <4> QED BY <1>3, <3>1, FS_EmptySet
    <3> QED BY <3>2
  <2>2. PICK m \in S : \A v \in S : m <= v
    <3> HIDE DEF S
    <3> QED BY <2>1, SmallestOf
  <2>3. m \in values /\ m \in Int /\ m >= k
    BY <2>1
  <2>4. Reach(m) = Reach(k)
    <3>1. \A x \in Reach(k) : x \in Reach(m)
      <4> SUFFICES ASSUME NEW x \in Reach(k) PROVE x \in Reach(m)
        OBVIOUS
      <4>1. m <= counts[x] /\ counts[x] \in Int
        BY <2>2
      <4> QED BY <2>3, <4>1
    <3>2. \A x \in Reach(m) : x \in Reach(k)
      <4> SUFFICES ASSUME NEW x \in Reach(m) PROVE x \in Reach(k)
        OBVIOUS
      <4>1. counts[x] >= m /\ counts[x] \in Int
        OBVIOUS
      <4> QED BY <2>3, <4>1
    <3> QED BY <3>1, <3>2
  <2>5. m \in V(i)
    <3> HIDE DEF Reach, values
    <3> QED BY <1>5, <2>3, <2>4
  <2> QED BY <2>3, <2>5
<1>6. ASSUME NEW i \in 1..n PROVE Max(V(i)) \in V(i) /\ (\A m \in V(i) : m <= Max(V(i)))
                                  /\ Max(V(i)) \in Nat
  <2>1. Reach(1) = labels
    <3>1. \A x \in labels : counts[x] >= 1
      OBVIOUS
    <3> QED BY <3>1
  <2>2. Cardinality(Reach(1)) >= i
    <3> HIDE DEF Reach
    <3> QED BY <1>2, <2>1
  <2>3. V(i) # {}
    <3> HIDE DEF V, Reach
    <3> QED BY <1>5, <2>2
  <2>4. V(i) \in SUBSET (0..bound)
    BY <1>2
  <2> DEFINE W == V(i)
  <2>5. W \in SUBSET (0..bound) /\ W # {}
    BY <2>3, <2>4
  <2> HIDE DEF W
  <2>6. Max(W) \in W /\ \A k \in W : k <= Max(W)
    BY <2>5, LargestOf
  <2>7. Max(W) \in Nat
    <3>1. \A m \in W : m \in Nat
      BY <2>5
    <3> QED BY <2>6, <3>1, Zenon
  <2> QED BY <2>6, <2>7 DEF W
<1>7. ASSUME NEW i \in 1..n, NEW k \in Nat \ {0}
      PROVE  sizes[i] >= k <=> Cardinality(Reach(k)) >= i
  <2>1. sizes[i] = Max(V(i))
    OBVIOUS
  <2>2. PICK m \in Nat : m = Max(V(i))
    BY <1>6
  <2>3. m \in V(i) /\ \A l \in V(i) : l <= m
    BY <1>6, <2>2
  <2>4. Cardinality(Reach(m)) >= i
    BY <2>3
  <2> HIDE DEF sizes
  <2>5. ASSUME m >= k PROVE Cardinality(Reach(k)) >= i
    <3>1. Cardinality(Reach(m)) <= Cardinality(Reach(k))
      BY <1>4, <2>5
    <3>2. Cardinality(Reach(m)) \in Nat /\ Cardinality(Reach(k)) \in Nat
      BY <1>3
    <3> HIDE DEF Reach
    <3> QED BY <1>2, <2>4, <3>1, <3>2
  <2>6. ASSUME Cardinality(Reach(k)) >= i PROVE m >= k
    <3>1. PICK l \in V(i) : l >= k
      BY <1>5, <2>6
    <3>2. l \in Nat /\ l <= m
      BY <1>2, <2>3
    <3> QED BY <2>2, <3>1, <3>2
  <2> QED BY <2>1, <2>2, <2>5, <2>6
<1>8. sizes \in Seq(Nat) /\ Len(sizes) = n
  <2>1. \A i \in 1..n : Max(V(i)) \in Nat
    BY <1>6
  <2> HIDE DEF V, n
  <2> QED BY <1>2, <2>1
<1> QED BY <1>1, <1>7, <1>8 DEF ReachedBy

LEMMA SizesKeepTheSum ==
  ASSUME NEW X, NEW bound \in Nat, NEW counts \in [X -> 0..bound],
         IsFiniteSet({x \in X : counts[x] > 0}), IsFiniteSet(Units(counts))
  PROVE  /\ Sizes(counts) \in Seq(Nat) /\ IsFiniteSet(Units(Sizes(counts)))
         /\ SumOf(Sizes(counts)) = SumOf(counts)
<1> DEFINE labels == {x \in X : counts[x] > 0}
           Reach(k) == {x \in labels : counts[x] >= k}
           v == Sizes(counts)
           n == Cardinality(labels)
           reach == [k \in Nat |-> Cardinality(Reach(k))]
<1> USE DEF labels
<1>1. /\ v \in Seq(Nat) /\ Len(v) = n /\ IsFiniteSet(labels) /\ n \in Nat
      /\ \A i \in 1..n, k \in Nat \ {0} : v[i] >= k <=> reach[k] >= i
  <2> PICK L : L = {x \in X : counts[x] > 0}
    OBVIOUS
  <2>1. IsFiniteSet(L) /\ Cardinality(L) \in Nat
    BY FS_CardinalityType
  <2> HIDE DEF labels
  <2>2. /\ Sizes(counts) \in Seq(Nat) /\ Len(Sizes(counts)) = Cardinality(L)
        /\ \A i \in 1..Cardinality(L), k \in Nat \ {0} :
             Sizes(counts)[i] >= k <=> Cardinality(ReachedBy(counts, L, k)) >= i
    BY <2>1, SlicesOfSizes
  <2> QED BY <2>1, <2>2 DEF labels, ReachedBy
<1> HIDE DEF v
<1>2. ASSUME NEW k \in Nat
      PROVE  IsFiniteSet(Reach(k)) /\ reach[k] \in Nat /\ reach[k] <= n
  <2>1. Reach(k) \in SUBSET labels
    OBVIOUS
  <2> HIDE DEF Reach, labels
  <2> QED BY <1>1, <2>1, FS_Subset, FS_CardinalityType
<1> DEFINE Numbers(k) == {b \in [1..reach[k] -> Reach(k)] :
                            /\ \A i, j \in 1..reach[k] : b[i] = b[j] => i = j
                            /\ \A x \in Reach(k) : \E i \in 1..reach[k] : b[i] = x}
           number == [k \in Nat |-> CHOOSE b \in Numbers(k) : TRUE]
<1>3. ASSUME NEW k \in Nat
      PROVE  /\ number[k] \in [1..reach[k] -> Reach(k)]
             /\ \A i, j \in 1..reach[k] : number[k][i] = number[k][j] => i = j
             /\ \A x \in Reach(k) : \E i \in 1..reach[k] : number[k][i] = x
  <2>1. \E b : b \in Numbers(k)
    <3> DEFINE m == Cardinality(Reach(k))
    <3> HIDE DEF Reach
    <3>1. IsFiniteSet(Reach(k)) /\ reach[k] = m
      BY <1>2
    <3>2. \E b \in [1..m -> Reach(k)] : /\ \A i, j \in 1..m : b[i] = b[j] => i = j
                                        /\ \A x \in Reach(k) : \E i \in 1..m : b[i] = x
      BY <3>1, Numbered
    <3> HIDE DEF m, reach
    <3>3. PICK b \in [1..m -> Reach(k)] : /\ \A i, j \in 1..m : b[i] = b[j] => i = j
                                          /\ \A x \in Reach(k) : \E i \in 1..m : b[i] = x
      BY <3>2, Zenon
    <3>4. b \in Numbers(k)
      BY <3>1, <3>3
    <3> QED BY <3>4, Zenon
  <2>2. number[k] \in Numbers(k)
    <3> HIDE DEF Numbers
    <3> QED BY <2>1
  <2> HIDE DEF number, Reach, reach
  <2> QED BY <2>2
<1> HIDE DEF number, Numbers, reach
<1> DEFINE U == Units(v)
           W == Units(counts)
           g == [u \in U |-> <<number[u[2]][u[1]], u[2]>>]
<1>4. ASSUME NEW u \in U
      PROVE  \E k \in Nat \ {0} : \E i \in 1..reach[k] :
               u = <<i, k>> /\ g[u] = <<number[k][i], k>> /\ number[k][i] \in Reach(k)
  <2> PICK i \in DOMAIN v : \E k \in 1..v[i] : u = <<i, k>>
    BY UnitsAre
  <2> PICK k \in 1..v[i] : u = <<i, k>>
    OBVIOUS
  <2>1. i \in 1..n /\ v[i] \in Nat /\ k \in Nat \ {0} /\ v[i] >= k
    BY <1>1
  <2>2. i \in 1..reach[k]
    BY <1>1, <1>2, <2>1
  <2>3. number[k][i] \in Reach(k)
    <3> HIDE DEF Reach
    <3> QED BY <1>3, <2>1, <2>2
  <2> HIDE DEF U, Reach
  <2> QED BY <2>1, <2>2, <2>3
<1>5. ASSUME NEW k \in Nat \ {0}, NEW x \in Reach(k)
      PROVE  <<x, k>> \in W
  <2>1. x \in DOMAIN counts /\ counts[x] \in Nat /\ k \in 1..counts[x]
    OBVIOUS
  <2> QED BY <2>1, UnitsAre
<1>6. g \in [U -> W]
  <2>1. \A u \in U : g[u] \in W
    <3> HIDE DEF U, W, g, Reach
    <3> QED BY <1>4, <1>5
  <2> HIDE DEF U, W
  <2> QED BY <2>1
<1>7. ASSUME NEW u \in U, NEW w \in U, g[u] = g[w] PROVE u = w
  <2> HIDE DEF U, W, g, Reach
  <2> PICK k \in Nat \ {0} : \E i \in 1..reach[k] :
             u = <<i, k>> /\ g[u] = <<number[k][i], k>> /\ number[k][i] \in Reach(k)
    BY <1>4
  <2>1. PICK i \in 1..reach[k] : u = <<i, k>> /\ g[u] = <<number[k][i], k>>
    OBVIOUS
  <2> PICK l \in Nat \ {0} : \E j \in 1..reach[l] :
             w = <<j, l>> /\ g[w] = <<number[l][j], l>> /\ number[l][j] \in Reach(l)
    BY <1>4
  <2>2. PICK j \in 1..reach[l] : w = <<j, l>> /\ g[w] = <<number[l][j], l>>
    OBVIOUS
  <2>3. k = l /\ number[k][i] = number[k][j]
    BY <1>7, <2>1, <2>2
  <2>4. i = j
    BY <1>3, <2>3
  <2> QED BY <2>1, <2>2, <2>3, <2>4
<1>8. ASSUME NEW w \in W PROVE \E u \in U : g[u] = w
  <2> PICK x \in DOMAIN counts : \E k \in 1..counts[x] : w = <<x, k>>
    BY UnitsAre
  <2>1. PICK k \in 1..counts[x] : w = <<x, k>>
    OBVIOUS
  <2>2. x \in X /\ counts[x] \in Nat /\ k \in Nat \ {0} /\ counts[x] >= k
    OBVIOUS
  <2>3. x \in Reach(k)
    BY <2>2
  <2>4. PICK i \in 1..reach[k] : number[k][i] = x
    <3> HIDE DEF Reach
    <3> QED BY <1>3, <2>2, <2>3
  <2>5. i \in 1..n /\ reach[k] >= i /\ i \in DOMAIN v
    <3>1. reach[k] \in Nat /\ reach[k] <= n
      BY <1>2, <2>2
    <3>2. DOMAIN v = 1..n /\ n \in Nat
      BY <1>1
    <3> HIDE DEF n, labels
    <3> QED BY <3>1, <3>2
  <2>6. k \in 1..v[i]
    <3>1. v[i] >= k /\ v[i] \in Nat
      BY <1>1, <2>2, <2>5
    <3> QED BY <2>2, <3>1
  <2>7. <<i, k>> \in U
    BY <2>5, <2>6, UnitsAre
  <2>8. g[<<i, k>>] = w
    <3> HIDE DEF U
    <3> QED BY <2>1, <2>4, <2>7
  <2> QED BY <2>7, <2>8
<1>9. IsFiniteSet(U) /\ Cardinality(U) = Cardinality(W)
  <2>1. IsFiniteSet(W)
    OBVIOUS
  <2> HIDE DEF U, W, g
  <2> QED BY <1>6, <1>7, <1>8, <2>1, OneToOne
<1> QED BY <1>1, <1>9 DEF SumOf, v

(* The last slice stands for all that follow it. *)
LEMMA LastSliceHoldsTheRest ==
  ASSUME NEW v \in Seq(Nat), IsFiniteSet(Units(v)), NEW limit \in Nat \ {0}, Len(v) > limit
  PROVE  SumOf(Append(SubSeq(v, 1, limit - 1), SumOf(SubSeq(v, limit, Len(v))))) = SumOf(v)
<1> DEFINE rest == SubSeq(v, limit, Len(v))
           s == SumOf(rest)
           c == Append(SubSeq(v, 1, limit - 1), s)
           U == Units(v)
           R == Units(rest)
           C == Units(c)
<1>1. PICK n \in Nat : n = Len(v) /\ DOMAIN v = 1..n /\ n > limit /\ \A i \in 1..n : v[i] \in Nat
  OBVIOUS
<1>2. DOMAIN rest = 1..(n - limit + 1) /\ \A i \in 1..(n - limit + 1) : rest[i] = v[i + limit - 1]
  BY <1>1
<1>3. IsFiniteSet(R)
  <2> DEFINE h == [u \in R |-> <<u[1] + limit - 1, u[2]>>]
  <2>1. ASSUME NEW u \in R
        PROVE  \E i \in 1..(n - limit + 1) : \E k \in 1..v[i + limit - 1] :
                 u = <<i, k>> /\ h[u] = <<i + limit - 1, k>> /\ h[u] \in U
    <3> PICK i \in DOMAIN rest : \E k \in 1..rest[i] : u = <<i, k>>
      BY UnitsAre
    <3> PICK k \in 1..rest[i] : u = <<i, k>>
      OBVIOUS
    <3>1. i \in 1..(n - limit + 1) /\ rest[i] = v[i + limit - 1] /\ i + limit - 1 \in 1..n
      <4>1. i \in 1..(n - limit + 1) /\ rest[i] = v[i + limit - 1]
        BY <1>2
      <4> QED BY <1>1, <4>1
    <3>2. <<i + limit - 1, k>> \in U
      BY <1>1, <3>1, UnitsAre
    <3> HIDE DEF R, U, rest
    <3> QED BY <3>1, <3>2
  <2>2. h \in [R -> U]
    <3> HIDE DEF R, U, rest
    <3>1. \A u \in R : h[u] \in U
      BY <2>1, Zenon
    <3> QED BY <3>1
  <2>3. ASSUME NEW u \in R, NEW w \in R, h[u] = h[w] PROVE u = w
    <3> HIDE DEF R, U, rest, h
    <3> PICK i \in 1..(n - limit + 1) : \E k \in 1..v[i + limit - 1] :
                 u = <<i, k>> /\ h[u] = <<i + limit - 1, k>>
      BY <2>1
    <3>1. PICK k \in Int : u = <<i, k>> /\ h[u] = <<i + limit - 1, k>>
      OBVIOUS
    <3> PICK j \in 1..(n - limit + 1) : \E k_1 \in 1..v[j + limit - 1] :
                 w = <<j, k_1>> /\ h[w] = <<j + limit - 1, k_1>>
      BY <2>1
    <3>2. PICK l \in Int : w = <<j, l>> /\ h[w] = <<j + limit - 1, l>>
      OBVIOUS
    <3> QED BY <1>1, <2>3, <3>1, <3>2
  <2>5. IsFiniteSet(U)
    OBVIOUS
  <2> HIDE DEF R, U, h
  <2>4. h \in Injection(R, U)
    BY <2>2, <2>3 DEF Injection, IsInjective
  <2> QED BY <2>4, <2>5, FS_Injection
<1>4. s \in Nat /\ \E b \in [1..s -> R] : /\ \A i, j \in 1..s : b[i] = b[j] => i = j
                                         /\ \A u \in R : \E i \in 1..s : b[i] = u
  <2>1. s = Cardinality(R)
    BY DEF SumOf
  <2> HIDE DEF R, s
  <2> QED BY <1>3, <2>1, Numbered
<1>5. PICK b \in [1..s -> R] : /\ \A i, j \in 1..s : b[i] = b[j] => i = j
                              /\ \A u \in R : \E i \in 1..s : b[i] = u
  BY <1>4, Zenon
<1>6. /\ c \in Seq(Nat) /\ DOMAIN c = 1..limit /\ c[limit] = s
      /\ \A i \in 1..(limit - 1) : c[i] = v[i]
  <2> HIDE DEF s
  <2>1. SubSeq(v, 1, limit - 1) \in Seq(Nat) /\ Len(SubSeq(v, 1, limit - 1)) = limit - 1
        /\ \A i \in 1..(limit - 1) : SubSeq(v, 1, limit - 1)[i] = v[i]
    BY <1>1
  <2> DEFINE first == SubSeq(v, 1, limit - 1)
  <2> HIDE DEF first
  <2>2. first \in Seq(Nat) /\ Len(first) = limit - 1 /\ \A i \in 1..(limit - 1) : first[i] = v[i]
    BY <2>1 DEF first
  <2>3. c = Append(first, s)
    BY DEF first
  <2> HIDE DEF c
  <2> QED BY <1>4, <2>2, <2>3
<1> HIDE DEF s, c, R, C, U, rest
<1> DEFINE shift(r) == <<r[1] + limit - 1, r[2]>>
           g == [u \in C |-> IF u[1] < limit THEN u ELSE shift(b[u[2]])]
<1>7. ASSUME NEW r \in R
      PROVE  \E i \in 1..(n - limit + 1) : \E k \in 1..v[i + limit - 1] :
               /\ r = <<i, k>> /\ shift(r) = <<i + limit - 1, k>> /\ shift(r) \in U
               /\ i + limit - 1 \in limit..n
  <2> PICK i \in DOMAIN rest : \E k \in 1..rest[i] : r = <<i, k>>
    BY UnitsAre DEF R
  <2> PICK k \in 1..rest[i] : r = <<i, k>>
    OBVIOUS
  <2>1. i \in 1..(n - limit + 1) /\ rest[i] = v[i + limit - 1] /\ i + limit - 1 \in limit..n
    <3>1. i \in 1..(n - limit + 1) /\ rest[i] = v[i + limit - 1]
      BY <1>2
    <3> QED BY <1>1, <3>1
  <2>2. <<i + limit - 1, k>> \in U
    <3>1. i + limit - 1 \in DOMAIN v
      BY <1>1, <2>1
    <3> QED BY <2>1, <3>1, UnitsAre DEF U
  <2> QED BY <2>1, <2>2
<1>8. ASSUME NEW u \in C
      PROVE  \/ \E i \in 1..(limit - 1) : \E k \in 1..v[i] : u = <<i, k>> /\ g[u] = u /\ u \in U
             \/ \E k \in 1..s : u = <<limit, k>> /\ g[u] = shift(b[k])
  <2> PICK i \in DOMAIN c : \E k \in 1..c[i] : u = <<i, k>>
    BY UnitsAre DEF C
  <2> PICK k \in 1..c[i] : u = <<i, k>>
    OBVIOUS
  <2>1. CASE i < limit
    <3>1. i \in 1..(limit - 1) /\ c[i] = v[i] /\ i \in DOMAIN v
      BY <1>1, <1>6, <2>1
    <3>2. u \in U
      BY <3>1, UnitsAre DEF U
    <3>3. g[u] = u
      BY <2>1
    <3> QED BY <3>1, <3>2, <3>3
  <2>2. CASE ~(i < limit)
    <3>1. i = limit /\ c[i] = s
      BY <1>6, <2>2
    <3>2. g[u] = shift(b[k])
      BY <2>2
    <3> QED BY <3>1, <3>2
  <2> QED BY <2>1, <2>2
<1> HIDE DEF g
<1>9. g \in [C -> U]
  <2>1. ASSUME NEW u \in C PROVE g[u] \in U
    <3>1. ASSUME NEW k \in 1..s PROVE shift(b[k]) \in U
      BY <1>5, <1>7
    <3> HIDE DEF shift
    <3> QED BY <1>8, <3>1
  <2> QED BY <2>1 DEF g
<1>10. ASSUME NEW u \in C, NEW w \in C, g[u] = g[w] PROVE u = w
  <2>1. ASSUME NEW k \in 1..s
        PROVE  \E i \in limit..n : \E l \in Nat : shift(b[k]) = <<i, l>> /\ b[k] = <<i - limit + 1, l>>
    <3> PICK i \in 1..(n - limit + 1) : \E l \in 1..v[i + limit - 1] :
               /\ b[k] = <<i, l>> /\ shift(b[k]) = <<i + limit - 1, l>>
               /\ i + limit - 1 \in limit..n
      BY <1>5, <1>7
    <3> PICK l \in 1..v[i + limit - 1] :
               /\ b[k] = <<i, l>> /\ shift(b[k]) = <<i + limit - 1, l>>
               /\ i + limit - 1 \in limit..n
      OBVIOUS
    <3>1. (i + limit - 1) - limit + 1 = i /\ l \in Nat
      OBVIOUS
    <3> HIDE DEF shift
    <3> QED BY <3>1
  <2> HIDE DEF shift
  <2>2. CASE /\ \E i \in 1..(limit - 1) : \E k \in 1..v[i] : u = <<i, k>> /\ g[u] = u
             /\ \E i \in 1..(limit - 1) : \E k \in 1..v[i] : w = <<i, k>> /\ g[w] = w
    BY <1>10, <2>2
  <2>3. ASSUME NEW p \in C, NEW q \in C, g[p] = g[q],
               \E i \in 1..(limit - 1) : \E k \in 1..v[i] : p = <<i, k>> /\ g[p] = p,
               \E k \in 1..s : q = <<limit, k>> /\ g[q] = shift(b[k])
        PROVE  FALSE
    <3>1. PICK i \in 1..(limit - 1) : \E k \in 1..v[i] : g[p] = <<i, k>>
      BY <2>3
    <3>2. PICK j \in limit..n : \E l \in Nat : g[q] = <<j, l>>
      BY <2>1, <2>3
    <3>3. i = j
      BY <2>3, <3>1, <3>2
    <3> QED BY <1>1, <3>3
  <2>4. CASE /\ \E k \in 1..s : u = <<limit, k>> /\ g[u] = shift(b[k])
             /\ \E k \in 1..s : w = <<limit, k>> /\ g[w] = shift(b[k])
    <3>1. PICK k \in 1..s : u = <<limit, k>> /\ g[u] = shift(b[k])
      BY <2>4
    <3>2. PICK l \in 1..s : w = <<limit, l>> /\ g[w] = shift(b[l])
      BY <2>4
    <3>3. b[k] = b[l]
      <4>1. PICK i \in limit..n : \E x \in Nat : shift(b[k]) = <<i, x>> /\ b[k] = <<i - limit + 1, x>>
        BY <2>1
      <4>2. PICK j \in limit..n : \E x \in Nat : shift(b[l]) = <<j, x>> /\ b[l] = <<j - limit + 1, x>>
        BY <2>1
      <4>3. shift(b[k]) = shift(b[l])
        BY <1>10, <3>1, <3>2
      <4> QED BY <4>1, <4>2, <4>3
    <3> QED BY <1>5, <3>1, <3>2, <3>3
  <2> QED BY <1>8, <1>10, <2>2, <2>3, <2>4
<1>11. ASSUME NEW w \in U PROVE \E u \in C : g[u] = w
  <2> PICK i \in DOMAIN v : \E k \in 1..v[i] : w = <<i, k>>
    BY UnitsAre DEF U
  <2> PICK k \in 1..v[i] : w = <<i, k>>
    OBVIOUS
  <2>1. i \in 1..n
    BY <1>1
  <2>2. CASE i < limit
    <3>1. i \in DOMAIN c /\ c[i] = v[i]
      BY <1>6, <2>1, <2>2
    <3>2. w \in C
      BY <3>1, UnitsAre DEF C
    <3>3. g[w] = w
      BY <2>2, <3>2 DEF g
    <3> QED BY <3>2, <3>3
  <2>3. CASE ~(i < limit)
    <3>1. PICK j \in 1..(n - limit + 1) : j = i - limit + 1 /\ j + limit - 1 = i
      <4>1. i - limit + 1 \in 1..(n - limit + 1) /\ (i - limit + 1) + limit - 1 = i
        BY <2>1, <2>3
      <4> QED BY <4>1
    <3>2. j \in DOMAIN rest /\ rest[j] = v[i]
      BY <1>2, <3>1
    <3>3. <<j, k>> \in R
      BY <3>2, UnitsAre DEF R
    <3>4. PICK l \in 1..s : b[l] = <<j, k>>
      BY <1>5, <3>3
    <3>5. <<limit, l>> \in C
      <4>1. limit \in DOMAIN c /\ l \in 1..c[limit]
        BY <1>6
      <4> QED BY <4>1, UnitsAre DEF C
    <3>6. g[<<limit, l>>] = shift(<<j, k>>)
      BY <3>4, <3>5 DEF g
    <3>7. shift(<<j, k>>) = w
      BY <3>1
    <3> QED BY <3>5, <3>6, <3>7
  <2> QED BY <2>2, <2>3
<1>12. Cardinality(C) = Cardinality(U)
  <2>1. IsFiniteSet(U)
    BY DEF U
  <2> QED BY <1>9, <1>10, <1>11, <2>1, OneToOne
<1> QED BY <1>12 DEF SumOf, C, U, c, s, rest

(* However many labels there are, a chart shows what was counted. *)
LEMMA ChartsKeepTheSum ==
  ASSUME NEW X, NEW bound \in Nat, NEW counts \in [X -> 0..bound], NEW limit \in Nat \ {0},
         IsFiniteSet({x \in X : counts[x] > 0}), IsFiniteSet(Units(counts))
  PROVE  SumOf(chartFromCounts(counts, limit)) = SumOf(counts)
<1> DEFINE v == Sizes(counts)
<1>1. v \in Seq(Nat) /\ IsFiniteSet(Units(v)) /\ SumOf(v) = SumOf(counts)
  BY SizesKeepTheSum
<1>2. chartFromCounts(counts, limit) = IF Len(v) > limit
        THEN Append(SubSeq(v, 1, limit - 1), SumOf(SubSeq(v, limit, Len(v)))) ELSE v
  BY DEF chartFromCounts
<1> HIDE DEF v
<1> QED BY <1>1, <1>2, LastSliceHoldsTheRest
-----------------------------------------------------------------------------
(***************************************************************************)
(* The inductive invariant: an overview                                    *)
(***************************************************************************)
Fields == {"at", "changes", "time", "total", "pending", "was", "items", "read", "fresh", "activity",
           "models", "stale", "tone", "works", "seen", "status"}

(* Active since the counters were read. *)
StillActive == overview.was \cap WithStatus({"active"})

Counted ==
  /\ {overview.time, overview.total, overview.pending} \subseteq Nat
  /\ overview.time \in 0..MaxTime
  /\ overview.was \subseteq WithStatus({"active", "retired"})

(* The list is read after the counters: it has those active all the time.  *)
Itemized ==
  /\ IsFiniteSet(DOMAIN overview.items) /\ DOMAIN overview.items \subseteq Device
  /\ \A d \in StillActive : d \in DOMAIN overview.items /\ overview.items[d] = "active"

Highlights ==
  /\ IsFiniteSet(overview.stale) /\ overview.stale \subseteq Device
  /\ overview.read \in Nat /\ overview.read <= Len(info)
  /\ \A d \in StillActive :
       (\A i \in ReportsOn(d) : overview.time - info[i].at > StaleAfter) => d \in overview.stale
  /\ overview.read <= Window =>
       \A d \in overview.stale : \A i \in ReportsOn(d) :
         i <= overview.read => overview.time - info[i].at > StaleAfter

Healthy ==
  /\ overview.total > 0 /\ overview.pending = 0 /\ overview.works
  /\ \A d \in StillActive : \E i \in ReportsOn(d) : overview.time - info[i].at <= StaleAfter

Overviews ==
  /\ overview = [x \in Fields |-> overview[x]]
  /\ overview.at \in {"none", "stats", "devices", "reports", "shown"}
  /\ overview.at # "none" => Counted
  /\ overview.at = "devices" => Itemized
  /\ overview.at \in {"reports", "shown"} => Highlights
  /\ overview.at = "shown" /\ overview.tone = "good" => Healthy

LEMMA StoreOverviews ==
  ASSUME Devices, Infos, Overviews, StoreStep, Counts
  PROVE  Overviews'
<1>1. Devices' /\ Infos' /\ DevicesStay /\ ReportsStay
  BY StoreStays
<1>2. /\ overview' = [x \in Fields |-> overview'[x]]
      /\ \A x \in Fields \ {"changes"} : overview'[x] = overview[x]
  <2>1. CASE overview' = overview
    BY <2>1 DEF Overviews
  <2>2. CASE overview' = [overview EXCEPT !.changes = overview.changes + 1]
    BY <2>2 DEF Overviews
  <2>3. overview' = overview \/ overview' = [overview EXCEPT !.changes = overview.changes + 1]
    BY DEF Counts
  <2> QED BY <2>1, <2>2, <2>3
<1>3. /\ overview'.at = overview.at /\ overview'.time = overview.time
      /\ overview'.total = overview.total /\ overview'.pending = overview.pending
      /\ overview'.was = overview.was /\ overview'.items = overview.items
      /\ overview'.read = overview.read /\ overview'.stale = overview.stale
      /\ overview'.tone = overview.tone /\ overview'.works = overview.works
  BY <1>2 DEF Fields
<1>4. ASSUME Counted PROVE Counted' /\ StillActive' \subseteq StillActive
  <2>1. WithStatus({"active", "retired"}) \subseteq (WithStatus({"active", "retired"}))'
    BY <1>1 DEF WithStatus, DevicesStay
  <2>2. \A d \in WithStatus({"active", "retired"}) :
          d \in (WithStatus({"active"}))' => d \in WithStatus({"active"})
    BY <1>1 DEF WithStatus, DevicesStay
  <2> QED BY <1>3, <1>4, <2>1, <2>2 DEF Counted, StillActive
<1>5. \A d \in Device : /\ ReportsOn(d) \subseteq ReportsOn(d)'
                        /\ \A i \in ReportsOn(d) : info'[i] = info[i]
                        /\ \A i \in ReportsOn(d)' : i <= Len(info) => i \in ReportsOn(d)
  <2>1. DOMAIN info = 1..Len(info) /\ DOMAIN info' = 1..Len(info') /\ Len(info) \in Nat
    BY <1>1 DEF Infos
  <2> QED BY <1>1, <2>1 DEF ReportsOn, ReportsStay
<1>6. StillActive \subseteq Device
  BY DEF StillActive, WithStatus, Existing
<1>7. ASSUME Counted, Itemized PROVE Itemized'
  BY <1>3, <1>4, <1>7 DEF Itemized
<1>8. ASSUME Counted, Highlights PROVE Highlights'
  <2>1. overview.read <= Len(info')
    <3> PICK a \in Nat : a = overview.read
      BY <1>8 DEF Highlights
    <3> PICK b \in Nat : b = Len(info)
      BY DEF Infos
    <3> PICK c \in Nat : c = Len(info')
      BY <1>1 DEF Infos
    <3> QED BY <1>1, <1>8 DEF Highlights, ReportsStay
  <2>2. ASSUME NEW d \in StillActive',
               \A i \in ReportsOn(d)' : overview'.time - info'[i].at > StaleAfter
        PROVE  d \in overview'.stale
    <3>1. d \in StillActive /\ d \in Device
      BY <1>4, <1>6, <1>8, <2>2
    <3>2. \A i \in ReportsOn(d) : overview.time - info[i].at > StaleAfter
      BY <1>3, <1>5, <2>2, <3>1
    <3> QED BY <1>3, <1>8, <3>1, <3>2 DEF Highlights
  <2>3. ASSUME overview.read <= Window, NEW d \in overview.stale, NEW i \in ReportsOn(d)', i <= overview.read
        PROVE  overview'.time - info'[i].at > StaleAfter
    <3>1. d \in Device
      BY <1>8 DEF Highlights
    <3>2. i \in Nat /\ overview.read \in Nat /\ Len(info) \in Nat /\ overview.read <= Len(info)
      BY <1>1, <1>8 DEF Highlights, ReportsOn, Infos
    <3>3. i \in ReportsOn(d) /\ info'[i] = info[i]
      BY <1>5, <2>3, <3>1, <3>2
    <3> QED BY <1>3, <1>8, <2>3, <3>3 DEF Highlights
  <2> QED BY <1>3, <1>8, <2>1, <2>2, <2>3 DEF Highlights
<1>9. ASSUME Counted, Healthy PROVE Healthy'
  <2>1. ASSUME NEW d \in StillActive' PROVE \E i \in ReportsOn(d)' : overview'.time - info'[i].at <= StaleAfter
    <3>1. d \in StillActive /\ d \in Device
      BY <1>4, <1>6, <1>9, <2>1
    <3>2. PICK i \in ReportsOn(d) : overview.time - info[i].at <= StaleAfter
      BY <1>9, <3>1 DEF Healthy
    <3> QED BY <1>3, <1>5, <3>1, <3>2
  <2> QED BY <1>3, <1>9, <2>1 DEF Healthy
<1> QED BY <1>2, <1>3, <1>4, <1>7, <1>8, <1>9 DEF Overviews

SameStore == UNCHANGED storeVars

(* The facts about the store do not change while pages read it. *)
LEMMA SameStoreStays ==
  ASSUME Devices, Infos, SameStore
  PROVE  Devices' /\ Infos'
BY DEF SameStore, storeVars, Devices, Infos, Existing, WithStatus

LEMMA StatsOverviews ==
  ASSUME Devices, Infos, Overviews, GetOverviewStats
  PROVE  Overviews'
<1>1. now \in Nat /\ now \in 0..MaxTime /\ Cardinality(Existing) \in Nat /\ Cardinality(WithStatus({"pending"})) \in Nat
  <2>1. IsFiniteSet(Existing) /\ WithStatus({"pending"}) \in SUBSET Existing
    BY DEF Devices, WithStatus
  <2> QED BY <2>1, FS_Subset, FS_CardinalityType DEF Infos
<1>2. overview' = [NoOverview EXCEPT !.at = "stats", !.time = now,
                                     !.total = Cardinality(Existing),
                                     !.pending = Cardinality(WithStatus({"pending"})),
                                     !.was = WithStatus({"active"})]
  BY DEF GetOverviewStats
<1>3. /\ overview' = [x \in Fields |-> overview'[x]]
      /\ overview'.at = "stats" /\ overview'.time = now /\ overview'.total = Cardinality(Existing)
      /\ overview'.pending = Cardinality(WithStatus({"pending"}))
      /\ overview'.was = WithStatus({"active"})
  BY <1>2 DEF NoOverview, Fields
<1>4. SameStore
  BY DEF GetOverviewStats, SameStore
<1>5. WithStatus({"active"}) \subseteq (WithStatus({"active", "retired"}))'
  BY <1>4 DEF SameStore, storeVars, WithStatus, Existing
<1> QED BY <1>1, <1>3, <1>5 DEF Overviews, Counted

LEMMA DevicesOverviews ==
  ASSUME Devices, Infos, Overviews, OverviewDevices
  PROVE  Overviews'
<1> DEFINE items == [d \in ListActiveDevices |-> device[d].status]
<1>1. overview' = [overview EXCEPT !.at = "devices", !.items = items]
  BY DEF OverviewDevices
<1>2. /\ overview' = [x \in Fields |-> overview'[x]]
      /\ overview'.at = "devices" /\ overview'.items = items
      /\ \A x \in Fields \ {"at", "items"} : overview'[x] = overview[x]
  BY <1>1 DEF Overviews, Fields
<1>3. /\ overview'.time = overview.time /\ overview'.total = overview.total
      /\ overview'.pending = overview.pending /\ overview'.was = overview.was
  BY <1>2 DEF Fields
<1>4. device' = device /\ info' = info /\ now' = now /\ overview.at = "stats"
  BY DEF OverviewDevices, storeVars
<1>5. Counted'
  BY <1>3, <1>4 DEF Overviews, Counted, WithStatus, Existing
<1>6. Itemized'
  <2>1. DOMAIN items = ListActiveDevices /\ ListActiveDevices \in SUBSET Existing
        /\ Existing \subseteq Device
    BY DEF ListActiveDevices, WithStatus, Existing
  <2>2. IsFiniteSet(DOMAIN items)
    BY <2>1, FS_Subset DEF Devices
  <2>3. \A d \in StillActive' : d \in ListActiveDevices /\ device[d].status = "active"
    BY <1>4 DEF StillActive, ListActiveDevices, WithStatus, Existing
  <2> QED BY <1>2, <2>1, <2>2, <2>3 DEF Itemized
<1> QED BY <1>2, <1>5, <1>6 DEF Overviews

LEMMA ReportsOverviews ==
  ASSUME Devices, Infos, Overviews, OverviewReports
  PROVE  Overviews'
<1> DEFINE records == Search(Window)
           stale == countStaleActiveDevices(overview.items, records, overview.time)
           fresh == buildDeviceInfoFreshnessChart(overview.items, records, overview.time)
           activity == buildUniqueDeviceActivityChart(records, overview.time)
           models == buildDeviceModelChart(overview.items, records)
<1>1. overview' = [overview EXCEPT !.at = "reports", !.read = Len(info), !.fresh = fresh,
                                   !.activity = activity, !.models = models, !.stale = stale]
  BY DEF OverviewReports
<1> HIDE DEF records, stale, fresh, activity, models
<1>2. /\ overview' = [x \in Fields |-> overview'[x]]
      /\ overview'.at = "reports" /\ overview'.read = Len(info) /\ overview'.stale = stale
      /\ \A x \in Fields \ {"at", "read", "fresh", "activity", "models", "stale"} :
           overview'[x] = overview[x]
  BY <1>1 DEF Overviews, Fields
<1>3. /\ overview'.time = overview.time /\ overview'.total = overview.total
      /\ overview'.pending = overview.pending /\ overview'.was = overview.was
  BY <1>2 DEF Fields
<1>4. device' = device /\ info' = info /\ now' = now /\ overview.at = "devices"
  BY DEF OverviewReports, storeVars
<1>5. Counted' /\ Counted /\ Itemized /\ StillActive' = StillActive
  BY <1>3, <1>4 DEF Overviews, Counted, StillActive, WithStatus, Existing
<1>6. records \in SUBSET DOMAIN info
  BY DEF records, Search
<1>7. stale = {d \in DOMAIN overview.items :
                 /\ overview.items[d] = "active"
                 /\ \/ latestDeviceInfoByDevice(records)[d] = None
                    \/ overview.time - latestDeviceInfoByDevice(records)[d] > StaleAfter}
  BY DEF stale, countStaleActiveDevices
<1>8. IsFiniteSet(stale) /\ stale \subseteq Device
  BY <1>5, <1>7, FS_Subset DEF Itemized
<1>9. ASSUME NEW d \in StillActive, \A i \in ReportsOn(d) : overview.time - info[i].at > StaleAfter
      PROVE  d \in stale
  <2> DEFINE m == latestDeviceInfoByDevice(records)[d]
             I == records \cap ReportsOn(d)
  <2>1. d \in DOMAIN overview.items /\ overview.items[d] = "active" /\ d \in Device
    BY <1>5, <1>9 DEF Itemized
  <2> HIDE DEF m
  <2>2. m = None \/ overview.time - m > StaleAfter
    <3>1. CASE I = {}
      BY <1>6, <2>1, <3>1, LatestTime DEF m
    <3>2. CASE I # {}
      <4>1. PICK i \in I : m = info[i].at
        BY <1>6, <2>1, <3>2, LatestTime DEF m
      <4> QED BY <1>9, <4>1
    <3> QED BY <3>1, <3>2
  <2> QED BY <1>7, <2>1, <2>2 DEF m
<1>10. ASSUME Len(info) <= Window, NEW d \in stale, NEW i \in ReportsOn(d)
       PROVE  overview.time - info[i].at > StaleAfter
  <2> DEFINE m == latestDeviceInfoByDevice(records)[d]
  <2>1. i \in records \cap ReportsOn(d) /\ i \in DOMAIN info
    BY <1>10, WindowOfAll DEF records, ReportsOn
  <2>2. d \in Device /\ (m = None \/ overview.time - m > StaleAfter)
    BY <1>7, <1>8, <1>10
  <2> HIDE DEF m
  <2>3. m # None /\ m \in Int /\ info[i].at <= m
    BY <1>6, <2>1, <2>2, LatestTime DEF m
  <2>4. PICK t \in Int : t = info[i].at
    BY <2>1, RowsOfReports
  <2>5. overview.time \in Nat /\ StaleAfter \in Nat
    BY <1>5, ChartsAssumption DEF Counted
  <2> QED BY <2>2, <2>3, <2>4, <2>5
<1>11. Highlights'
  <2>1. Len(info) \in Nat /\ Len(info) <= Len(info)
    BY DEF Infos
  <2>2. \A d \in Device : ReportsOn(d)' = ReportsOn(d)
    BY <1>4 DEF ReportsOn
  <2>3. StillActive \subseteq Device
    BY DEF StillActive, WithStatus, Existing
  <2> QED BY <1>2, <1>3, <1>4, <1>5, <1>8, <1>9, <1>10, <2>1, <2>2, <2>3 DEF Highlights
<1> QED BY <1>2, <1>5, <1>11 DEF Overviews

(* A page that asks for no attention has nothing to review. *)
LEMMA NothingToAttend ==
  ASSUME NEW policies \in PolicyStats, NEW commands \in CommandStats,
         Counted, IsFiniteSet(overview.stale),
         overviewStatusSummary(Attention(overview, policies, commands)) = "good"
  PROVE  /\ overview.total > 0 /\ overview.pending = 0 /\ overview.stale = {}
         /\ policies.active > 0 /\ commands.sent + commands.failed = 0
<1>1. /\ "warn" \notin Attention(overview, policies, commands)
      /\ "danger" \notin Attention(overview, policies, commands)
  BY DEF overviewStatusSummary
<1>2. /\ ~(overview.total = 0) /\ ~(overview.pending > 0)
      /\ ~(overview.total > 0 /\ Review(overview) > 0)
      /\ ~(commands.sent > 0) /\ ~(policies.active = 0) /\ ~(commands.failed > 0)
  BY <1>1 DEF Attention
<1>3. PICK total \in Nat, pending \in Nat : total = overview.total /\ pending = overview.pending
  BY DEF Counted
<1>4. PICK n \in Nat : n = Cardinality(overview.stale)
  BY FS_CardinalityType
<1>5. total > 0 /\ pending = 0 /\ n = 0
  BY <1>2, <1>3, <1>4 DEF Review
<1>6. overview.stale = {}
  BY <1>4, <1>5, FS_EmptySet
<1>7. policies.active \in {0, 1} /\ commands.sent \in {0, 1} /\ commands.failed \in {0, 1}
  BY DEF PolicyStats, CommandStats
<1>8. policies.active > 0 /\ commands.sent + commands.failed = 0
  <2>1. policies.active = 1 /\ commands.sent = 0 /\ commands.failed = 0
    BY <1>2, <1>7
  <2> QED BY <2>1
<1> QED BY <1>3, <1>5, <1>6, <1>8

LEMMA SummaryOverviews ==
  ASSUME Devices, Infos, Overviews,
         NEW policies \in PolicyStats, NEW commands \in CommandStats, OverviewSummary(policies, commands)
  PROVE  Overviews'
<1> DEFINE tone == overviewStatusSummary(Attention(overview, policies, commands))
           works == policies.active > 0 /\ commands.sent + commands.failed = 0
           seen == deviceInfoFreshnessMetric(overview.fresh, overview.total)
           status == buildDeviceStatusChart([s \in {"pending", "enrolled", "active", "retired"} |->
                                               Cardinality(WithStatus({s}))])
<1>1. overview' = [overview EXCEPT !.at = "shown", !.tone = tone, !.works = works,
                                   !.seen = seen, !.status = status]
  BY DEF OverviewSummary
<1> HIDE DEF tone, works, seen, status
<1>2. /\ overview' = [x \in Fields |-> overview'[x]]
      /\ overview'.at = "shown" /\ overview'.tone = tone /\ overview'.works = works
      /\ \A x \in Fields \ {"at", "tone", "works", "seen", "status"} : overview'[x] = overview[x]
  BY <1>1 DEF Overviews, Fields
<1>3. /\ overview'.time = overview.time /\ overview'.total = overview.total
      /\ overview'.pending = overview.pending /\ overview'.was = overview.was
      /\ overview'.stale = overview.stale /\ overview'.read = overview.read
  BY <1>2 DEF Fields
<1>4. device' = device /\ info' = info /\ now' = now /\ overview.at = "reports"
  BY DEF OverviewSummary, storeVars
<1>5. Counted' /\ Counted /\ Highlights /\ StillActive' = StillActive
  BY <1>3, <1>4 DEF Overviews, Counted, StillActive, WithStatus, Existing
<1>6. \A d \in Device : ReportsOn(d)' = ReportsOn(d)
  BY <1>4 DEF ReportsOn
<1>7. StillActive \subseteq Device
  BY DEF StillActive, WithStatus, Existing
<1>8. Highlights'
  BY <1>3, <1>4, <1>5, <1>6, <1>7 DEF Highlights
<1>9. ASSUME tone = "good" PROVE Healthy'
  <2>1. /\ overview.total > 0 /\ overview.pending = 0 /\ overview.stale = {} /\ works
    BY <1>5, <1>9, NothingToAttend DEF tone, works, Highlights
  <2>2. ASSUME NEW d \in StillActive PROVE \E i \in ReportsOn(d) : overview.time - info[i].at <= StaleAfter
    <3>1. PICK i \in ReportsOn(d) : ~(overview.time - info[i].at > StaleAfter)
      BY <1>5, <2>1 DEF Highlights
    <3>2. PICK t \in Int : t = info[i].at
      BY RowsOfReports DEF ReportsOn
    <3>3. overview.time \in Nat /\ StaleAfter \in Nat
      BY <1>5, ChartsAssumption DEF Counted
    <3> QED BY <3>1, <3>2, <3>3
  <2>3. overview'.works
    BY <1>2, <2>1, Zenon
  <2>4. \A d \in StillActive' : \E i \in ReportsOn(d)' : overview'.time - info'[i].at <= StaleAfter
    BY <1>3, <1>4, <1>5, <1>6, <1>7, <2>2
  <2> QED BY <1>3, <2>1, <2>3, <2>4 DEF Healthy
<1> QED BY <1>2, <1>5, <1>8, <1>9 DEF Overviews

-----------------------------------------------------------------------------
(***************************************************************************)
(* The charts of an overview                                               *)
(***************************************************************************)

(* The devices listed whose latest report is of the last day. *)
SeenWithin(items, records, t) ==
  {d \in DOMAIN items : /\ latestDeviceInfoByDevice(records)[d] # None
                        /\ t - latestDeviceInfoByDevice(records)[d] <= Day}

(* Every device listed is in one bar of the chart of freshness. *)
LEMMA FreshnessAddsUp ==
  ASSUME NEW items, IsFiniteSet(DOMAIN items), DOMAIN items \subseteq Device, NEW records, NEW t
  PROVE  LET fresh == buildDeviceInfoFreshnessChart(items, records, t)
         IN  /\ SumOf(fresh) = Cardinality(DOMAIN items)
             /\ fresh["Last 24h"] = Cardinality(SeenWithin(items, records, t))
             /\ fresh["Last 24h"] \in 0..Cardinality(DOMAIN items)
             /\ Cardinality(DOMAIN items) \in Nat
<1> DEFINE latest == latestDeviceInfoByDevice(records)
           fresh == buildDeviceInfoFreshnessChart(items, records, t)
           S == DOMAIN items
           X == {"Last 24h", "2-7 days", "Stale 8+d", "No report"}
           Age(d) == IF latest[d] = None THEN "No report"
                     ELSE IF t - latest[d] <= Day THEN "Last 24h"
                     ELSE IF t - latest[d] <= Week THEN "2-7 days" ELSE "Stale 8+d"
           label == [d \in S |-> Age(d)]
<1>1. fresh = [x \in X |-> Cardinality({d \in S : Age(d) = x})]
  BY DEF buildDeviceInfoFreshnessChart
<1>2. \A d \in S : Age(d) \in X /\ (Age(d) = "Last 24h" <=> latest[d] # None /\ t - latest[d] <= Day)
  <2> HIDE DEF latest, S
  <2> QED OBVIOUS
<1> HIDE DEF Age, latest
<1>3. label \in [S -> X]
  BY <1>2
<1>4. DOMAIN fresh = X /\ \A x \in X : fresh[x] = Cardinality(Labelled(label, S, x))
  <2>1. \A x \in X : {d \in S : Age(d) = x} = Labelled(label, S, x)
    BY DEF Labelled
  <2> HIDE DEF fresh, X
  <2> QED BY <1>1, <2>1
<1>5. {d \in S : Age(d) = "Last 24h"} = {d \in S : latest[d] # None /\ t - latest[d] <= Day}
  BY <1>2
<1>6. fresh["Last 24h"] = Cardinality({d \in S : latest[d] # None /\ t - latest[d] <= Day})
  <2> HIDE DEF fresh
  <2> QED BY <1>1, <1>5
<1> HIDE DEF fresh, S, X, label
<1>7. /\ SumOf(fresh) = Cardinality(S) /\ Cardinality(S) \in Nat
      /\ \A x \in X : fresh[x] \in 0..Cardinality(S)
  <2>1. IsFiniteSet(S)
    BY DEF S
  <2>3. DOMAIN fresh = X /\ \A x \in X : fresh[x] = Cardinality(Labelled(label, S, x))
    BY <1>4
  <2>2. /\ \A x \in X : fresh[x] \in 0..Cardinality(S)
        /\ Cardinality(S) \in Nat
        /\ IsFiniteSet(Units(fresh)) /\ SumOf(fresh) = Cardinality(S)
        /\ IsFiniteSet({x \in X : fresh[x] > 0})
    BY <1>3, <2>1, <2>3, CountedOnce
  <2> QED BY <2>2
<1>8. fresh["Last 24h"] \in 0..Cardinality(S)
  BY <1>7 DEF X
<1> QED BY <1>6, <1>7, <1>8 DEF fresh, latest, S, SeenWithin

(* Every device listed is counted with its model. *)
LEMMA ModelsAddUp ==
  ASSUME NEW items, IsFiniteSet(DOMAIN items), DOMAIN items \subseteq Device, NEW records
  PROVE  SumOf(buildDeviceModelChart(items, records)) = Cardinality(DOMAIN items)
<1> DEFINE latest == latestDeviceInfoModelByDevice(records)
           S == DOMAIN items
           X == Model \cup {"Unknown"}
           label == [d \in S |-> latest[d]]
           counts == [x \in X |-> Cardinality({d \in S : latest[d] = x})]
<1>1. buildDeviceModelChart(items, records) = chartFromCounts(counts, Slices)
  BY DEF buildDeviceModelChart
<1>2. label \in [S -> X]
  BY ChartsAssumption DEF latestDeviceInfoModelByDevice
<1>3. counts = [x \in X |-> counts[x]] /\ \A x \in X : counts[x] = Cardinality(Labelled(label, S, x))
  <2>1. \A x \in X : {d \in S : latest[d] = x} = Labelled(label, S, x)
    BY DEF Labelled
  <2> HIDE DEF X
  <2> QED BY <2>1
<1>4. IsFiniteSet(S) /\ Slices \in Nat \ {0}
  BY ChartsAssumption
<1> HIDE DEF counts, S, X, label, latest
<1>5. /\ counts \in [X -> 0..Cardinality(S)] /\ Cardinality(S) \in Nat
      /\ IsFiniteSet(Units(counts)) /\ SumOf(counts) = Cardinality(S)
      /\ IsFiniteSet({x \in X : counts[x] > 0})
  <2>1. DOMAIN counts = X
    BY <1>3
  <2>2. /\ \A x \in X : counts[x] \in 0..Cardinality(S)
        /\ Cardinality(S) \in Nat
        /\ IsFiniteSet(Units(counts)) /\ SumOf(counts) = Cardinality(S)
        /\ IsFiniteSet({x \in X : counts[x] > 0})
    BY <1>2, <1>3, <1>4, <2>1, CountedOnce
  <2> QED BY <1>3, <2>2
<1>6. SumOf(chartFromCounts(counts, Slices)) = SumOf(counts)
  BY <1>4, <1>5, ChartsKeepTheSum
<1> QED BY <1>1, <1>5, <1>6 DEF S

(* Every device of the store is counted with its status. *)
LEMMA StatusesAddUp ==
  ASSUME Devices
  PROVE  SumOf(buildDeviceStatusChart([s \in {"pending", "enrolled", "active", "retired"} |->
                                         Cardinality(WithStatus({s}))])) = Cardinality(Existing)
<1> DEFINE S == Existing
           X == {"pending", "enrolled", "active", "retired"}
           label == [d \in S |-> device[d].status]
           counts == [s \in X |-> Cardinality(WithStatus({s}))]
<1>1. label \in [S -> X]
  <2>1. \A d \in S : device[d].status \in X
    BY RowsAreRows DEF DeviceRow
  <2> QED BY <2>1
<1>2. counts = [x \in X |-> counts[x]] /\ \A x \in X : counts[x] = Cardinality(Labelled(label, S, x))
  <2>1. \A s \in X : WithStatus({s}) = Labelled(label, S, s)
    BY DEF WithStatus, Labelled
  <2> HIDE DEF X
  <2> QED BY <2>1
<1>3. IsFiniteSet(S)
  BY DEF Devices
<1> HIDE DEF counts, S, X, label
<1>4. /\ counts \in [X -> 0..Cardinality(S)] /\ Cardinality(S) \in Nat
      /\ IsFiniteSet(Units(counts)) /\ SumOf(counts) = Cardinality(S)
      /\ IsFiniteSet({x \in X : counts[x] > 0})
  <2>1. DOMAIN counts = X
    BY <1>2
  <2>2. /\ \A x \in X : counts[x] \in 0..Cardinality(S)
        /\ Cardinality(S) \in Nat
        /\ IsFiniteSet(Units(counts)) /\ SumOf(counts) = Cardinality(S)
        /\ IsFiniteSet({x \in X : counts[x] > 0})
    BY <1>1, <1>2, <1>3, <2>1, CountedOnce
  <2> QED BY <1>2, <2>2
<1>5. SumOf(chartFromCounts(counts, 8)) = SumOf(counts)
  <2>1. 8 \in Nat \ {0}
    OBVIOUS
  <2> QED BY <1>4, <2>1, ChartsKeepTheSum
<1> QED BY <1>4, <1>5 DEF S, counts, X, buildDeviceStatusChart


(* A report of the last day falls on one of the days of the chart, unless  *)
(* a long day pushed it past the last bar.                                 *)
LEMMA TheChartHasTheDay ==
  ASSUME NEW t \in 0..MaxTime, NEW a \in Int, a <= t, t - a <= Day, a < FirstDay(t) + Week
  PROVE  /\ a \in FirstDay(t)..t /\ a - FirstDay(t) \in Nat
         /\ ((a - FirstDay(t)) \div Day) + 1 \in 1..(Week \div Day)
<1>1. Day \in Nat \ {0} /\ t \in Int
  BY PagesAssumption
<1>2. PICK k \in 2..7 : Week = k * Day
  BY ChartsAssumption
<1>3. Week \in Nat /\ Week \div Day = k
  BY <1>1, <1>2
<1>4. PICK start \in Int : start = FirstDay(t) /\ start + Day <= t
  BY CalendarAssumption
<1>5. start <= a /\ a - start \in Nat /\ a - start < Week
  BY <1>1, <1>3, <1>4
<1>6. PICK x \in Nat : x = a - start /\ x < k * Day
  BY <1>2, <1>5
<1> DEFINE p == x \div Day
<1>7. p \in Nat /\ p * Day <= x
  BY <1>1, <1>6
<1> HIDE DEF p
<1>8. p < k
  <2> SUFFICES ASSUME p >= k PROVE FALSE
    BY <1>7
  <2>1. p * Day >= k * Day
    <3>1. p - k \in Nat /\ (p - k) * Day >= 0
      BY <1>1, <1>7
    <3>2. (p - k) * Day = p * Day - k * Day
      BY <1>1, <1>7
    <3> QED BY <1>1, <1>7, <3>1, <3>2
  <2>2. p * Day \in Int /\ k * Day \in Int
    BY <1>1, <1>7
  <2> QED BY <1>6, <1>7, <2>1, <2>2
<1>9. a \in FirstDay(t)..t /\ a - FirstDay(t) \in Nat
  BY <1>1, <1>4, <1>5
<1>10. ((a - FirstDay(t)) \div Day) + 1 \in 1..(Week \div Day)
  <2>1. (a - FirstDay(t)) \div Day = p
    BY <1>4, <1>6 DEF p
  <2>2. p + 1 \in 1..k
    BY <1>7, <1>8
  <2> QED BY <1>3, <2>1, <2>2
<1> QED BY <1>9, <1>10

(* Those that reported on day i of the chart. *)
ReportedOn(records, t, i) ==
  LET start == FirstDay(t)
  IN  {info[r].dev : r \in {x \in records : info[x].at \in start..t
                                            /\ (info[x].at - start) \div Day = i - 1}}

(* A report that has its place in the bars, and counts for its sender only. *)
Barred(i, t) ==
  /\ info[i].at <= t /\ info[i].at < FirstDay(t) + Week
  /\ info[i].named \in {None, info[i].dev}

(* A device seen within a day is one that reported on a day of the chart. *)
LEMMA SeenAreActive ==
  ASSUME Devices, Infos, NEW F \in SUBSET Device, NEW t \in 0..MaxTime,
         NEW records \in SUBSET DOMAIN info, \A i \in records : Barred(i, t),
         \A d \in F : /\ latestDeviceInfoByDevice(records)[d] # None
                      /\ t - latestDeviceInfoByDevice(records)[d] <= Day
  PROVE  Cardinality(F) <= SumOf(buildUniqueDeviceActivityChart(records, t))
<1> DEFINE w == Week \div Day
           activity == buildUniqueDeviceActivityChart(records, t)
           n == Cardinality(Existing)
           U == Units(activity)
<1>1. DOMAIN activity = 1..w /\ \A i \in 1..w : activity[i] = Cardinality(ReportedOn(records, t, i))
  BY DEF buildUniqueDeviceActivityChart, ReportedOn
<1>2. w \in Nat /\ n \in Nat /\ IsFiniteSet(Existing)
  <2>1. Day \in Nat \ {0}
    BY PagesAssumption
  <2>2. PICK k \in 2..7 : Week = k * Day
    BY ChartsAssumption
  <2>3. w = k
    BY <2>1, <2>2
  <2> QED BY <2>3, FS_CardinalityType DEF Devices
<1>3. ASSUME NEW i \in 1..w
      PROVE  /\ IsFiniteSet(ReportedOn(records, t, i))
             /\ activity[i] = Cardinality(ReportedOn(records, t, i))
             /\ activity[i] \in Nat /\ activity[i] <= n
  <2>1. ReportedOn(records, t, i) \in SUBSET Existing
    BY DEF ReportedOn, Infos, WithStatus
  <2> HIDE DEF activity
  <2> QED BY <1>1, <1>2, <2>1, FS_Subset, FS_CardinalityType
<1> HIDE DEF activity
<1>4. IsFiniteSet(U)
  <2> DEFINE A == 1..w
             B == 1..n
  <2>1. IsFiniteSet(A) /\ IsFiniteSet(B)
    BY <1>2, FS_Interval
  <2>2. U \in SUBSET (A \X B)
    <3>1. ASSUME NEW u \in U PROVE u \in A \X B
      <4> PICK i \in DOMAIN activity : \E k \in 1..activity[i] : u = <<i, k>>
        BY UnitsAre
      <4> PICK k \in 1..activity[i] : u = <<i, k>>
        OBVIOUS
      <4>1. i \in 1..w /\ activity[i] \in Nat /\ activity[i] <= n
        BY <1>1, <1>3
      <4> QED BY <1>2, <4>1
    <3> QED BY <3>1
  <2> HIDE DEF A, B, U
  <2>3. IsFiniteSet(A \X B)
    BY <2>1, FS_Product
  <2> QED BY <2>2, <2>3, FS_Subset
<1> DEFINE Numbers(i) == {b \in [1..activity[i] -> ReportedOn(records, t, i)] :
                            \A d \in ReportedOn(records, t, i) : \E k \in 1..activity[i] : b[k] = d}
           number == [i \in 1..w |-> CHOOSE b \in Numbers(i) : TRUE]
<1>5. ASSUME NEW i \in 1..w, NEW d \in ReportedOn(records, t, i)
      PROVE  \E k \in 1..activity[i] : number[i][k] = d
  <2> PICK D : D = ReportedOn(records, t, i)
    OBVIOUS
  <2> PICK m : m = activity[i]
    OBVIOUS
  <2>1. IsFiniteSet(D) /\ m = Cardinality(D)
    BY <1>3
  <2>2. \E b \in [1..m -> D] : /\ \A j, k \in 1..m : b[j] = b[k] => j = k
                               /\ \A e \in D : \E k \in 1..m : b[k] = e
    BY <2>1, Numbered
  <2>3. PICK b \in [1..m -> D] : \A e \in D : \E k \in 1..m : b[k] = e
    BY <2>2, Zenon
  <2>4. b \in Numbers(i)
    BY <2>3
  <2>5. number[i] \in Numbers(i)
    <3> HIDE DEF Numbers
    <3> QED BY <2>4
  <2> HIDE DEF number
  <2> QED BY <2>5
<1> HIDE DEF number, Numbers
<1>6. ASSUME NEW d \in F PROVE \E i \in 1..w : d \in ReportedOn(records, t, i)
  <2> DEFINE latest == latestDeviceInfoByDevice(records)[d]
             start == FirstDay(t)
  <2>1. latest # None /\ t - latest <= Day /\ d \in Device
    OBVIOUS
  <2> HIDE DEF latest
  <2>2. PICK r \in records \cap ReportsOn(d) : latest = info[r].at
    BY <2>1, LatestTime DEF latest
  <2>3. PICK a \in Int : a = info[r].at /\ a <= t /\ a < FirstDay(t) + Week
    BY <2>2, RowsOfReports DEF Barred
  <2>4. a \in start..t /\ ((a - start) \div Day) + 1 \in 1..w
    BY <2>1, <2>2, <2>3, TheChartHasTheDay
  <2> DEFINE i == ((a - start) \div Day) + 1
  <2>5. (a - start) \div Day = i - 1
    <3>1. Day \in Nat \ {0}
      BY PagesAssumption
    <3>5. a - start \in Nat
      BY <2>1, <2>2, <2>3, TheChartHasTheDay
    <3>6. PICK q \in Nat : q = (a - start) \div Day
      BY <3>1, <3>5
    <3> QED BY <3>6
  <2>6. info[r].dev = d
    <3>1. Barred(r, t) /\ d \in {info[r].dev, info[r].named} /\ d # None
      BY <2>1, <2>2, NoneIsNoRow DEF ReportsOn
    <3> QED BY <3>1 DEF Barred
  <2>7. d \in ReportedOn(records, t, i)
    <3> HIDE DEF i
    <3> QED BY <2>2, <2>3, <2>4, <2>5, <2>6 DEF ReportedOn
  <2> QED BY <2>4, <2>7
<1> DEFINE g == [d \in F |-> CHOOSE u \in U : number[u[1]][u[2]] = d]
<1>7. ASSUME NEW d \in F PROVE g[d] \in U /\ number[g[d][1]][g[d][2]] = d
  <2>1. PICK i \in 1..w : d \in ReportedOn(records, t, i)
    BY <1>6
  <2>2. PICK k \in 1..activity[i] : number[i][k] = d
    BY <1>5, <2>1
  <2>3. <<i, k>> \in U
    BY <1>1, <2>2, UnitsAre DEF activity
  <2> HIDE DEF U
  <2>4. \E u \in U : number[u[1]][u[2]] = d
    BY <2>2, <2>3
  <2> QED BY <2>4
<1> HIDE DEF g, U
<1>8. g \in Injection(F, U)
  BY <1>7 DEF Injection, IsInjective, g
<1>9. Cardinality(F) <= Cardinality(U)
  BY <1>4, <1>8, FS_Injection
<1> QED BY <1>9 DEF SumOf, U, activity

-----------------------------------------------------------------------------
(***************************************************************************)
(* The inductive invariant: the charts of an overview                      *)
(***************************************************************************)
(* What the charts of an overview add up to, and what the store has become *)
(* since the counters were read.                                           *)
Charted ==
  /\ SumOf(overview.models) = Cardinality(DOMAIN overview.items)
  /\ SumOf(overview.fresh) = Cardinality(DOMAIN overview.items)
  /\ overview.read \in Nat /\ overview.read <= Len(info)
  /\ (\A i \in 1..overview.read : Barred(i, overview.time)) =>
       overview.fresh["Last 24h"] <= SumOf(overview.activity)

Charts ==
  /\ overview.at # "none" => /\ overview.changes \in Nat
                             /\ overview.total \in Nat /\ overview.total <= Cardinality(Existing)
  /\ overview.at = "stats" /\ overview.changes = 0 => overview.total = Cardinality(Existing)
  /\ overview.at = "devices" /\ overview.changes = 0 => Cardinality(DOMAIN overview.items) <= overview.total
  /\ overview.at \in {"reports", "shown"} => Charted
  /\ overview.at = "reports" =>
       /\ overview.fresh["Last 24h"] \in Nat
       /\ overview.changes = 0 => overview.fresh["Last 24h"] <= overview.total
  /\ overview.at = "shown" =>
       /\ SumOf(overview.status) \in overview.total..Cardinality(Existing)
       /\ overview.changes = 0 => overview.seen \in 0..100

LEMMA StoreCharts ==
  ASSUME Devices, Infos, Overviews, Charts, StoreStep, Counts
  PROVE  Charts'
<1>1. Devices' /\ Infos' /\ DevicesStay /\ ReportsStay
  BY StoreStays
<1>2. CASE overview.at = "none"
  <2>1. overview' = overview
    BY <1>2 DEF Counts
  <2> QED BY <1>2, <2>1 DEF Charts
<1>3. CASE overview.at # "none"
  <2>1. overview' = [overview EXCEPT !.changes = overview.changes + 1]
    BY <1>3 DEF Counts
  <2>2. /\ overview'.changes = overview.changes + 1
        /\ overview'.at = overview.at /\ overview'.time = overview.time
        /\ overview'.total = overview.total /\ overview'.items = overview.items
        /\ overview'.read = overview.read /\ overview'.fresh = overview.fresh
        /\ overview'.activity = overview.activity /\ overview'.models = overview.models
        /\ overview'.status = overview.status
    BY <2>1 DEF Overviews, Fields
  <2>3. overview'.changes \in Nat /\ overview'.changes # 0
    <3>1. PICK k \in Nat : k = overview.changes
      BY <1>3 DEF Charts
    <3> QED BY <2>2, <3>1
  <2>4. PICK m \in Nat : m = Cardinality(Existing)
    BY FS_CardinalityType DEF Devices
  <2>5. PICK n \in Nat : n = Cardinality(Existing') /\ m <= n
    <3> DEFINE E == Existing'
    <3>1. IsFiniteSet(E) /\ Existing \in SUBSET E
      BY <1>1 DEF Devices, DevicesStay
    <3> HIDE DEF E
    <3>2. Cardinality(Existing) <= Cardinality(E) /\ Cardinality(E) \in Nat
      BY <3>1, FS_Subset, FS_CardinalityType
    <3> QED BY <2>4, <3>2 DEF E
  <2>6. overview'.total \in Nat /\ overview'.total <= Cardinality(Existing')
    <3>1. PICK k \in Nat : k = overview.total /\ k <= m
      BY <1>3, <2>4 DEF Charts
    <3> QED BY <2>2, <2>5, <3>1
  <2>7. ASSUME Charted PROVE Charted'
    <3>1. PICK r \in Nat : r = overview.read /\ r <= Len(info)
      BY <2>7 DEF Charted
    <3>2. PICK a \in Nat : a = Len(info) /\ DOMAIN info = 1..a
      BY DEF Infos
    <3>3. PICK b \in Nat : b = Len(info') /\ a <= b
      BY <1>1, <3>2 DEF Infos, ReportsStay
    <3>4. \A i \in 1..r : info'[i] = info[i]
      BY <1>1, <3>1, <3>2 DEF ReportsStay
    <3>5. (\A i \in 1..overview'.read : Barred(i, overview.time)')
            => \A i \in 1..overview.read : Barred(i, overview.time)
      BY <2>2, <3>1, <3>4 DEF Barred
    <3>6. overview'.read \in Nat /\ overview'.read <= Len(info')
      BY <2>2, <3>1, <3>2, <3>3
    <3>7. /\ SumOf(overview'.models) = Cardinality(DOMAIN overview'.items)
          /\ SumOf(overview'.fresh) = Cardinality(DOMAIN overview'.items)
      BY <2>2, <2>7 DEF Charted
    <3>8. (\A i \in 1..overview'.read : Barred(i, overview.time)') =>
            overview'.fresh["Last 24h"] <= SumOf(overview'.activity)
      BY <2>2, <2>7, <3>5 DEF Charted
    <3> QED BY <3>6, <3>7, <3>8 DEF Charted
  <2>8. ASSUME overview.at = "shown" PROVE SumOf(overview'.status) \in overview'.total..Cardinality(Existing')
    <3>1. PICK s \in Int : s = SumOf(overview.status) /\ s \in overview.total..m
      BY <2>4, <2>8 DEF Charts
    <3>2. PICK k \in Nat : k = overview.total
      BY <1>3 DEF Charts
    <3>3. SumOf(overview'.status) = s
      BY <2>2, <3>1
    <3> QED BY <2>2, <2>5, <3>1, <3>2, <3>3
  <2>9. overview'.fresh["Last 24h"] = overview.fresh["Last 24h"]
    BY <2>2
  <2> QED BY <1>3, <2>2, <2>3, <2>6, <2>7, <2>8, <2>9 DEF Charts
<1> QED BY <1>2, <1>3

LEMMA StatsCharts ==
  ASSUME Devices, Overviews, GetOverviewStats
  PROVE  Charts'
<1>1. overview' = [NoOverview EXCEPT !.at = "stats", !.time = now,
                                     !.total = Cardinality(Existing),
                                     !.pending = Cardinality(WithStatus({"pending"})),
                                     !.was = WithStatus({"active"})]
  BY DEF GetOverviewStats
<1>2. overview'.at = "stats" /\ overview'.total = Cardinality(Existing) /\ overview'.changes = 0
  BY <1>1 DEF NoOverview
<1>3. Existing' = Existing
  BY DEF GetOverviewStats, storeVars, Existing
<1>4. Cardinality(Existing) \in Nat
  BY FS_CardinalityType DEF Devices
<1> QED BY <1>2, <1>3, <1>4 DEF Charts

LEMMA DevicesCharts ==
  ASSUME Devices, Overviews, Charts, OverviewDevices
  PROVE  Charts'
<1> DEFINE items == [d \in ListActiveDevices |-> device[d].status]
<1>1. overview' = [overview EXCEPT !.at = "devices", !.items = items] /\ overview.at = "stats"
  BY DEF OverviewDevices
<1> HIDE DEF items
<1>2. /\ overview'.at = "devices" /\ overview'.items = items
      /\ overview'.changes = overview.changes /\ overview'.total = overview.total
  BY <1>1 DEF Overviews, Fields
<1>3. Existing' = Existing
  BY DEF OverviewDevices, storeVars, Existing
<1>4. Cardinality(DOMAIN items) <= Cardinality(Existing)
  <2>1. DOMAIN items = ListActiveDevices /\ ListActiveDevices \in SUBSET Existing
    BY DEF items, ListActiveDevices, WithStatus
  <2> QED BY <2>1, FS_Subset DEF Devices
<1> QED BY <1>1, <1>2, <1>3, <1>4 DEF Charts

LEMMA ReportsCharts ==
  ASSUME Devices, Infos, Overviews, Charts, OverviewReports
  PROVE  Charts'
<1> DEFINE records == Search(Window)
           stale == countStaleActiveDevices(overview.items, records, overview.time)
           fresh == buildDeviceInfoFreshnessChart(overview.items, records, overview.time)
           activity == buildUniqueDeviceActivityChart(records, overview.time)
           models == buildDeviceModelChart(overview.items, records)
<1>1. /\ overview' = [overview EXCEPT !.at = "reports", !.read = Len(info), !.fresh = fresh,
                                      !.activity = activity, !.models = models, !.stale = stale]
      /\ overview.at = "devices" /\ info' = info /\ device' = device
  BY DEF OverviewReports, storeVars
<1> HIDE DEF records, stale, fresh, activity, models
<1>2. /\ overview'.at = "reports" /\ overview'.read = Len(info) /\ overview'.fresh = fresh
      /\ overview'.activity = activity /\ overview'.models = models
      /\ overview'.items = overview.items /\ overview'.total = overview.total
      /\ overview'.changes = overview.changes /\ overview'.time = overview.time
  BY <1>1 DEF Overviews, Fields
<1>3. Existing' = Existing
  BY <1>1 DEF Existing
<1> PICK items : items = overview.items
  OBVIOUS
<1> PICK t \in 0..MaxTime : t = overview.time
  BY <1>1 DEF Overviews, Counted
<1>4. IsFiniteSet(DOMAIN items) /\ DOMAIN items \subseteq Device
  BY <1>1 DEF Overviews, Itemized
<1>5. records \in SUBSET DOMAIN info
  BY DEF records, Search
<1> DEFINE seen == SeenWithin(items, records, t)
<1>6. /\ SumOf(fresh) = Cardinality(DOMAIN items) /\ fresh["Last 24h"] = Cardinality(seen)
      /\ fresh["Last 24h"] \in 0..Cardinality(DOMAIN items) /\ Cardinality(DOMAIN items) \in Nat
  BY <1>4, FreshnessAddsUp DEF fresh
<1>7. SumOf(models) = Cardinality(DOMAIN items)
  BY <1>4, ModelsAddUp DEF models
<1>8. Len(info) \in Nat /\ DOMAIN info = 1..Len(info)
  BY DEF Infos
<1>9. ASSUME \A i \in 1..Len(info) : Barred(i, t)
      PROVE  fresh["Last 24h"] <= SumOf(activity)
  <2>1. seen \in SUBSET Device
    BY <1>4 DEF SeenWithin
  <2>2. \A i \in records : Barred(i, t)
    BY <1>5, <1>8, <1>9
  <2>3. \A d \in seen : /\ latestDeviceInfoByDevice(records)[d] # None
                        /\ t - latestDeviceInfoByDevice(records)[d] <= Day
    BY DEF SeenWithin
  <2> HIDE DEF seen
  <2>4. Cardinality(seen) <= SumOf(buildUniqueDeviceActivityChart(records, t))
    BY <1>5, <2>1, <2>2, <2>3, SeenAreActive
  <2> QED BY <1>6, <2>4 DEF activity
<1>10. Charted'
  <2>1. (\A i \in 1..overview'.read : Barred(i, overview.time)') =>
          overview'.fresh["Last 24h"] <= SumOf(overview'.activity)
    BY <1>1, <1>2, <1>9 DEF Barred
  <2>2. /\ SumOf(overview'.models) = Cardinality(DOMAIN overview'.items)
        /\ SumOf(overview'.fresh) = Cardinality(DOMAIN overview'.items)
    BY <1>2, <1>6, <1>7
  <2>3. overview'.read \in Nat /\ overview'.read <= Len(info')
    BY <1>1, <1>2, <1>8
  <2> QED BY <2>1, <2>2, <2>3 DEF Charted
<1>11. PICK part \in Nat : part = fresh["Last 24h"] /\ part <= Cardinality(DOMAIN items)
  <2>1. PICK n : n = Cardinality(DOMAIN items)
    OBVIOUS
  <2>2. PICK p : p = fresh["Last 24h"]
    OBVIOUS
  <2>3. n \in Nat /\ p \in 0..n
    BY <1>6, <2>1, <2>2, Zenon
  <2>4. p \in Nat /\ p <= n
    BY <2>3
  <2> QED BY <2>1, <2>2, <2>4, Zenon
<1>12. ASSUME overview.changes = 0 PROVE part <= overview.total
  <2>1. PICK n \in Nat : n = Cardinality(DOMAIN items)
    BY <1>6, Zenon
  <2>2. n <= overview.total /\ overview.total \in Nat
    BY <1>1, <1>12, <2>1 DEF Charts
  <2>3. part <= n
    BY <1>11, <2>1
  <2> QED BY <2>1, <2>2, <2>3
<1> QED BY <1>1, <1>2, <1>3, <1>10, <1>11, <1>12 DEF Charts

LEMMA ShareOfAll ==
  ASSUME NEW part \in Nat, NEW total \in Nat, part <= total
  PROVE  (IF total = 0 THEN 0 ELSE (part * 100) \div total) \in 0..100
<1>1. CASE total = 0
  BY <1>1
<1>2. CASE total > 0
  <2> DEFINE q == (part * 100) \div total
  <2>1. q \in Nat /\ q * total <= part * 100
    BY <1>2
  <2> HIDE DEF q
  <2>2. q <= 100
    <3> SUFFICES ASSUME q >= 101 PROVE FALSE
      BY <2>1
    <3>1. q * total >= 101 * total
      <4>1. q - 101 \in Nat /\ (q - 101) * total >= 0
        BY <2>1
      <4>2. (q - 101) * total = q * total - 101 * total
        BY <2>1
      <4> QED BY <2>1, <4>1, <4>2
    <3>2. 101 * total > 100 * part
      BY <1>2
    <3> QED BY <2>1, <3>1, <3>2
  <2> QED BY <1>2, <2>1, <2>2 DEF q
<1> QED BY <1>1, <1>2

LEMMA SummaryCharts ==
  ASSUME Devices, Overviews, Charts,
         NEW policies \in PolicyStats, NEW commands \in CommandStats, OverviewSummary(policies, commands)
  PROVE  Charts'
<1> DEFINE tone == overviewStatusSummary(Attention(overview, policies, commands))
           works == policies.active > 0 /\ commands.sent + commands.failed = 0
           seen == deviceInfoFreshnessMetric(overview.fresh, overview.total)
           status == buildDeviceStatusChart([s \in {"pending", "enrolled", "active", "retired"} |->
                                               Cardinality(WithStatus({s}))])
<1>1. /\ overview' = [overview EXCEPT !.at = "shown", !.tone = tone, !.works = works,
                                      !.seen = seen, !.status = status]
      /\ overview.at = "reports" /\ info' = info /\ device' = device
  BY DEF OverviewSummary, storeVars
<1> HIDE DEF tone, works, seen, status
<1>2. /\ overview'.at = "shown" /\ overview'.seen = seen /\ overview'.status = status
      /\ overview'.changes = overview.changes /\ overview'.time = overview.time
      /\ overview'.total = overview.total /\ overview'.items = overview.items
      /\ overview'.read = overview.read /\ overview'.fresh = overview.fresh
      /\ overview'.activity = overview.activity /\ overview'.models = overview.models
  BY <1>1 DEF Overviews, Fields
<1>3. Existing' = Existing
  BY <1>1 DEF Existing
<1>4. PICK total \in Nat : total = overview.total /\ total <= Cardinality(Existing)
  BY <1>1 DEF Charts
<1>5. Cardinality(Existing) \in Nat /\ SumOf(status) = Cardinality(Existing)
  BY FS_CardinalityType, StatusesAddUp DEF status, Devices
<1>6. ASSUME overview.changes = 0 PROVE seen \in 0..100
  <2>1. PICK part \in Nat : part = overview.fresh["Last 24h"] /\ part <= total
    BY <1>1, <1>4, <1>6 DEF Charts
  <2> QED BY <1>4, <2>1, ShareOfAll DEF seen, deviceInfoFreshnessMetric
<1>7. Charted'
  <2>1. Charted
    BY <1>1 DEF Charts
  <2> QED BY <1>1, <1>2, <2>1 DEF Charted, Barred
<1>8. SumOf(overview'.status) \in overview'.total..Cardinality(Existing')
  BY <1>2, <1>3, <1>4, <1>5
<1> QED BY <1>1, <1>2, <1>3, <1>4, <1>5, <1>6, <1>7, <1>8 DEF Charts

-----------------------------------------------------------------------------
(***************************************************************************)
(* The theorems                                                            *)
(***************************************************************************)
IInv == Devices /\ Infos /\ Walks /\ Overviews /\ Charts

LEMMA InitIInv ==
  ASSUME Init
  PROVE  IInv
<1>1. Existing = {}
  BY DEF Init, StoreInit, Existing
<1>2. Devices
  BY <1>1, FS_EmptySet DEF Init, StoreInit, Devices
<1>3. Infos
  BY PagesAssumption DEF Init, StoreInit, Infos
<1>4. Walks
  BY DEF Init, Walks
<1>5. Overviews
  BY DEF Init, NoOverview, Overviews, Fields
<1>6. Charts
  BY DEF Init, NoOverview, Charts
<1> QED BY <1>2, <1>3, <1>4, <1>5, <1>6 DEF IInv

LEMMA StepIInv ==
  ASSUME IInv, [Next]_vars
  PROVE  IInv'
<1> USE DEF IInv
<1>1. CASE StoreStep /\ Watches /\ Counts
  BY <1>1, StoreStays, StoreWalks, StoreOverviews, StoreCharts
<1>2. ASSUME SameStore PROVE Devices' /\ Infos'
  BY <1>2, SameStoreStays
<1>3. ASSUME SameStore, walk' = walk PROVE Walks'
  <2>1. device' = device /\ info' = info /\ now' = now
    BY <1>3 DEF SameStore, storeVars
  <2> DEFINE S == Listing(walk.filter)
  <2>2. (Listing(walk.filter))' = S
    BY <1>3, <2>1 DEF Listing, Existing, Matches, Stale, Low, Lateral, Reports, Newer
  <2> HIDE DEF S
  <2>3. \A d \in S : (Place(d, Listing(walk.filter)))' = Place(d, S)
    BY <2>1, <2>2 DEF Place, CreatedLater
  <2>4. Ahead => Ahead'
    BY <1>3, <2>2, <2>3 DEF Ahead, S
  <2> QED BY <1>3, <2>4 DEF Walks
<1>4. ASSUME SameStore, overview' = overview PROVE Overviews' /\ Charts'
  <2>1. device' = device /\ info' = info /\ now' = now
    BY <1>4 DEF SameStore, storeVars
  <2>2. StillActive' = StillActive /\ StillActive \subseteq Device /\ (Counted => Counted')
    BY <1>4, <2>1 DEF StillActive, Counted, WithStatus, Existing
  <2>3. \A d \in Device : ReportsOn(d)' = ReportsOn(d)
    BY <2>1 DEF ReportsOn
  <2>4. (Itemized => Itemized') /\ (Highlights => Highlights') /\ (Healthy => Healthy')
    BY <1>4, <2>1, <2>2, <2>3 DEF Itemized, Highlights, Healthy
  <2>5. Overviews'
    BY <1>4, <2>2, <2>4 DEF Overviews
  <2>6. Existing' = Existing
    BY <2>1 DEF Existing
  <2>7. Charts'
    BY <1>4, <2>1, <2>6 DEF Charts, Charted, Barred
  <2> QED BY <2>5, <2>7
<1>5. CASE \E f \in Listed, l \in Limit : Opens(f, l)
  <2>1. PICK f \in Listed, l \in Limit : Opens(f, l)
    BY <1>5
  <2>2. SameStore /\ overview' = overview
    BY <2>1 DEF Opens, SameStore
  <2> QED BY <1>2, <1>4, <2>1, <2>2, OpensWalks
<1>6. CASE pager
  <2>1. SameStore /\ overview' = overview
    BY <1>6 DEF pager, SameStore
  <2> QED BY <1>2, <1>4, <1>6, <2>1, PagerWalks
<1>7. CASE Closes
  <2>1. SameStore /\ overview' = overview /\ walk' = None
    BY <1>7 DEF Closes, SameStore
  <2> QED BY <1>2, <1>4, <2>1 DEF Walks
<1>8. CASE GetOverviewStats
  <2>1. SameStore /\ walk' = walk
    BY <1>8 DEF GetOverviewStats, SameStore
  <2> QED BY <1>2, <1>3, <1>8, <2>1, StatsOverviews, StatsCharts
<1>9. CASE OverviewDevices
  <2>1. SameStore /\ walk' = walk
    BY <1>9 DEF OverviewDevices, SameStore
  <2> QED BY <1>2, <1>3, <1>9, <2>1, DevicesOverviews, DevicesCharts
<1>10. CASE OverviewReports
  <2>1. SameStore /\ walk' = walk
    BY <1>10 DEF OverviewReports, SameStore
  <2> QED BY <1>2, <1>3, <1>10, <2>1, ReportsOverviews, ReportsCharts
<1>11. CASE renderPageError
  <2>1. SameStore /\ walk' = walk /\ overview' = NoOverview
    BY <1>11 DEF renderPageError, SameStore
  <2>2. Overviews' /\ Charts'
    BY <2>1 DEF NoOverview, Overviews, Fields, Charts
  <2> QED BY <1>2, <1>3, <2>1, <2>2
<1>12. CASE \E policies \in PolicyStats, commands \in CommandStats : OverviewSummary(policies, commands)
  <2>1. PICK policies \in PolicyStats, commands \in CommandStats : OverviewSummary(policies, commands)
    BY <1>12
  <2>2. SameStore /\ walk' = walk
    BY <2>1 DEF OverviewSummary, SameStore
  <2> QED BY <1>2, <1>3, <2>1, <2>2, SummaryOverviews, SummaryCharts
<1>13. CASE UNCHANGED vars
  <2>1. SameStore /\ walk' = walk /\ overview' = overview
    BY <1>13 DEF vars, SameStore
  <2> QED BY <1>2, <1>3, <1>4, <2>1
<1> QED BY <1>1, <1>5, <1>6, <1>7, <1>8, <1>9, <1>10, <1>11, <1>12, <1>13 DEF Next

THEOREM Invariance == Spec => []IInv
<1>1. Init => IInv
  BY InitIInv
<1>2. IInv /\ [Next]_vars => IInv'
  BY StepIInv
<1> QED BY <1>1, <1>2, PTL DEF Spec

(* Reports belong to devices that were enrolled, and a page never holds    *)
(* more rows than its limit times the pages walked (paginateItems).        *)
THEOREM TypeCorrect == Spec => []TypeOK
<1>1. IInv => TypeOK
  BY DEF IInv, TypeOK, Devices, Infos, Walks
<1> QED BY Invariance, <1>1, PTL

(* A walk by the Next links misses no device that was there when it began, *)
(* for any number of devices, any limit below the cap and any creations    *)
(* on the way (listPaginationParams, paginateItems).                       *)
THEOREM WalkMissesNothingAlways == Spec => []WalkMissesNothing
<1>1. IInv => WalkMissesNothing
  BY DEF IInv, Walks, Ahead, WalkMissesNothing
<1> QED BY Invariance, <1>1, PTL

(* A row marked stale is found by its filter, and one marked low unless    *)
(* only Go reads its level; a device the overview counts as stale is       *)
(* found, if it reads every report, whatever dates and names they hold     *)
(* (ListLatestByDeviceIDs, the lateral join, latestDeviceInfoByDevice).    *)
THEOREM FiltersAgreeAlways == Spec => []FiltersAgree
<1>1. IInv => FiltersAgree
  BY ReadersAgree DEF IInv
<1> QED BY Invariance, <1>1, PTL

(* A device that was active all the time an overview was made is counted   *)
(* as stale if every report it sent or that names it is old, and none is   *)
(* counted in error unless reports fell out of the window                  *)
(* (countStaleActiveDevices, latestDeviceInfoByDevice).                    *)
THEOREM StaleIsHighlightedAlways == Spec => []StaleIsHighlighted
<1>1. IInv => StaleIsHighlighted
  <2> SUFFICES ASSUME IInv, overview.at \in {"reports", "shown"} PROVE StaleIsHighlighted
    BY DEF StaleIsHighlighted
  <2>1. Highlights
    BY DEF IInv, Overviews
  <2> QED BY <2>1 DEF Highlights, StillActive, StaleIsHighlighted
<1> QED BY Invariance, <1>1, PTL

(* An overview that says the fleet is healthy hides no pending device, no  *)
(* active one of which every report is old, whoever sent it, and no        *)
(* command that waits (overviewStatusSummary).                             *)
THEOREM HealthyHidesNothingAlways == Spec => []HealthyHidesNothing
<1>1. IInv => HealthyHidesNothing
  <2> SUFFICES ASSUME IInv, overview.at = "shown", overview.tone = "good" PROVE HealthyHidesNothing
    BY DEF HealthyHidesNothing
  <2>1. Healthy
    BY DEF IInv, Overviews
  <2> QED BY <2>1 DEF Healthy, StillActive, HealthyHidesNothing
<1> QED BY Invariance, <1>1, PTL

(* The charts count every device once, also when rare models are folded    *)
(* into one slice; those seen within a day are in the bar of a day, with   *)
(* days of any length, unless a report is dated later, past the last bar   *)
(* or names another device; and the share of those seen is one of the      *)
(* counted devices, unless the store changed meanwhile (chartFromCounts,   *)
(* buildDeviceInfoFreshnessChart, buildUniqueDeviceActivityChart,          *)
(* deviceInfoFreshnessMetric).                                             *)
THEOREM ChartsAddUpAlways == Spec => []ChartsAddUp
<1>1. IInv => ChartsAddUp
  BY DEF IInv, Charts, Charted, ChartsAddUp, Barred
<1> QED BY Invariance, <1>1, PTL
=============================================================================
