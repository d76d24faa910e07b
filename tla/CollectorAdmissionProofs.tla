----------------------- MODULE CollectorAdmissionProofs -----------------------
(***************************************************************************)
(* That the leases of the admission are accounted for, that the rate of a  *)
(* host is bounded, and that a batch is committed under its leases only,   *)
(* for any number of requests and hosts and any limits.                    *)
(***************************************************************************)
EXTENDS CollectorAdmission, FiniteSetTheorems, TLAPS

Active == {"whois", "body", "key"}

\* What the flags of a request say of each other.  Only a request between its
\* admission and its end holds leases, and then it holds both; without leases
\* it goes on only behind the answer of the deadline, which aborted it.
Flags(x) ==
    /\ x.phase = "unsent" => x = Unsent
    /\ x.phase = "ended" => x.released
    /\ x.phase \in Active =>
         /\ x.global /\ x.local
         /\ x.host \in Hosts
         /\ x.aborted <=> x.released
         /\ x.aborted <=> x.answer # "none"

FlagsInv == \A r \in Requests : Flags(req[r])

Holders == {r \in Requests : Holds(r)}

\* The leases that are out, one by one: a holder's host is tracked and has that
\* one request, and a bucket's request is there.
LeaseInv ==
    /\ IsFiniteSet(Holders) /\ globalInFlight = Cardinality(Holders)
    /\ \A r \in Holders : req[r].host \in Tracked /\ buckets[req[r].host].inFlight = 1
    /\ \A r, q \in Holders : req[r].host = req[q].host => r = q
    /\ \A h \in Tracked :
         \/ buckets[h].inFlight = 0
         \/ buckets[h].inFlight = 1 /\ \E r \in Holders : req[r].host = h

\* What a host owes is at most what its bucket lacks, counting the time that has
\* not been credited yet; a host without a bucket owes nothing.
DebtInv ==
    \A h \in Hosts :
        IF h \in Tracked
        THEN debt[h] + AtMost(buckets[h].tokens + buckets[h].idle, Burst) <= Burst
        ELSE debt[h] = 0

AdmissionInv == TypeOK /\ FlagsInv /\ LeaseInv /\ DebtInv

-----------------------------------------------------------------------------

\* The limits are positive numbers, and an idle bucket is full before it is purged.
LEMMA LimitsTyped ==
    /\ MaxInFlight \in Nat \ {0} /\ Burst \in Nat \ {0} /\ IdleTicks \in Nat \ {0}
    /\ Burst <= IdleTicks /\ NoHost \notin Hosts
BY AdmissionAssumption

\* AtMost is the smaller of the two.
LEMMA AtMostIs ==
    ASSUME NEW n \in Nat, NEW ceiling \in Nat
    PROVE  /\ AtMost(n, ceiling) \in 0 .. ceiling
           /\ AtMost(n, ceiling) <= n
           /\ AtMost(n, ceiling) = n \/ AtMost(n, ceiling) = ceiling
BY DEF AtMost

\* The fields of a bucket.
LEMMA BucketTyped ==
    ASSUME NEW b \in Bucket
    PROVE  /\ b.tokens \in Nat /\ b.tokens <= Burst
           /\ b.idle \in Nat /\ b.idle <= IdleTicks /\ b.inFlight \in Nat
BY LimitsTyped DEF Bucket

\* What is purged has no request and has been idle for long.
LEMMA PurgedIs ==
    ASSUME TypeOK
    PROVE  /\ DOMAIN PurgedIdle \subseteq Tracked
           /\ \A h \in DOMAIN PurgedIdle : PurgedIdle[h] = buckets[h]
           /\ \A h \in Tracked \ DOMAIN PurgedIdle :
                buckets[h].inFlight = 0 /\ buckets[h].idle >= IdleTicks
<1>1. \A h \in Tracked : buckets[h].inFlight \in Nat /\ buckets[h].idle \in Nat
  BY BucketTyped DEF TypeOK
<1> QED
  BY <1>1, LimitsTyped DEF PurgedIdle

\* The bucket that admission looks at is the host's own, refilled, or fresh.
LEMMA HostBucketIs ==
    ASSUME TypeOK, NEW h \in Hosts, NEW b \in HostBucket(h)
    PROVE  /\ b \in Bucket /\ b.idle = 0
           /\ \/ /\ h \in DOMAIN PurgedIdle /\ b.inFlight = buckets[h].inFlight
                 /\ b.tokens = AtMost(buckets[h].tokens + buckets[h].idle, Burst)
              \/ /\ h \notin DOMAIN PurgedIdle
                 /\ b.inFlight = 0 /\ b.tokens = Burst
<1>1. CASE h \in DOMAIN PurgedIdle
  <2>1. b = Refilled(buckets[h]) /\ buckets[h] \in Bucket
    BY <1>1, PurgedIs DEF HostBucket, TypeOK
  <2> DEFINE old == buckets[h]
             full == AtMost(old.tokens + old.idle, Burst)
  <2>2. old.tokens + old.idle \in Nat /\ old.inFlight \in Nat
    BY <2>1, BucketTyped
  <2>3. full \in 0 .. Burst
    BY <2>2, LimitsTyped, AtMostIs
  <2>4. b = [old EXCEPT !.tokens = full, !.idle = 0]
    BY <2>1 DEF Refilled
  <2> HIDE DEF full
  <2>5. b.tokens = full /\ b.idle = 0 /\ b.inFlight = old.inFlight
    BY <2>1, <2>4 DEF Bucket
  <2>6. b \in Bucket
    <3>1. b = [tokens |-> full, idle |-> 0, inFlight |-> old.inFlight]
      BY <2>1, <2>4 DEF Bucket
    <3>2. 0 \in 0 .. IdleTicks
      BY LimitsTyped
    <3> QED
      BY <2>2, <2>3, <3>1, <3>2 DEF Bucket
  <2> QED
    BY <1>1, <2>5, <2>6 DEF full
<1>2. CASE h \notin DOMAIN PurgedIdle
  BY <1>2, LimitsTyped DEF HostBucket, FreshBucket, Bucket
<1> QED
  BY <1>1, <1>2

-----------------------------------------------------------------------------

\* The books are right when the endpoint starts.
LEMMA AdmissionInit == Init => AdmissionInv
<1> SUFFICES ASSUME Init PROVE AdmissionInv
  OBVIOUS
<1>0. Tracked = {}
  BY DEF Init, Tracked
<1>1. TypeOK
  <2>1. Unsent \in Request
    BY DEF Unsent, Request
  <2> QED
    BY <1>0, <2>1 DEF Init, TypeOK
<1>2. FlagsInv
  BY DEF Init, FlagsInv, Flags, Unsent, Active
<1>3. LeaseInv
  <2>1. Holders = {}
    BY DEF Init, Holders, Holds, Unsent
  <2> QED
    BY <1>0, <2>1, FS_EmptySet DEF Init, LeaseInv
<1>4. DebtInv
  BY <1>0 DEF Init, DebtInv
<1> QED
  BY <1>1, <1>2, <1>3, <1>4 DEF AdmissionInv

\* A holder of leases is a request between its admission and its end.
LEMMA HolderIs ==
    ASSUME FlagsInv, TypeOK, NEW r \in Requests
    PROVE  Holds(r) <=> req[r].phase \in Active /\ ~req[r].released
BY DEF FlagsInv, Flags, TypeOK, Holds, Request, Active, Unsent

\* A request that has ended, or is over with its leases, returns them once:
\* Release followed by the end of the lease.
LEMMA ReleaseReturns ==
    ASSUME AdmissionInv, NEW r \in Requests, req[r].phase \in Active, Release(r),
           NEW s, req' = [req EXCEPT ![r] = s], s.released, debt' = debt
    PROVE  /\ globalInFlight' \in Nat
           /\ Tracked' = Tracked /\ \A h \in Tracked : buckets'[h] \in Bucket
           /\ LeaseInv' /\ DebtInv'
<1> USE DEF AdmissionInv
<1>1. req'[r] = s /\ \A q \in Requests \ {r} : req'[q] = req[q]
  BY DEF TypeOK
<1>2. ~Holds(r)' /\ \A q \in Requests \ {r} : Holds(q)' <=> Holds(q)
  BY <1>1 DEF Holds
<1>3. CASE req[r].released
  <2>1. UNCHANGED <<globalInFlight, buckets>>
    BY <1>3 DEF Release
  <2>2. Holders' = Holders /\ \A q \in Holders : req'[q] = req[q]
    BY <1>1, <1>2, <1>3 DEF Holders, Holds
  <2>3. LeaseInv'
    BY <2>1, <2>2 DEF LeaseInv, Tracked
  <2> QED
    BY <2>1, <2>3 DEF TypeOK, DebtInv, Tracked
<1>4. CASE ~req[r].released
  <2> DEFINE h == req[r].host
  <2>1. req[r].global /\ req[r].local /\ r \in Holders
    BY <1>4 DEF FlagsInv, Flags, Holders, Holds
  <2>2. h \in Tracked /\ buckets[h].inFlight = 1 /\ buckets[h] \in Bucket
    BY <2>1 DEF LeaseInv, TypeOK
  <2>3. /\ globalInFlight' = globalInFlight - 1
        /\ buckets' = [buckets EXCEPT ![h].inFlight = @ - 1]
    BY <1>4, <2>1 DEF Release
  <2>4. Holders' = Holders \ {r}
    BY <1>2 DEF Holders
  <2>5. /\ IsFiniteSet(Holders') /\ Cardinality(Holders') = globalInFlight'
        /\ globalInFlight' \in Nat
    <3>1. IsFiniteSet(Holders) /\ globalInFlight = Cardinality(Holders)
      BY DEF LeaseInv
    <3>2. IsFiniteSet(Holders \ {r}) /\ Cardinality(Holders \ {r}) = Cardinality(Holders) - 1
      BY <3>1, <2>1, FS_RemoveElement
    <3>3. Cardinality(Holders \ {r}) \in Nat
      BY <3>2, FS_CardinalityType
    <3> QED
      BY <2>3, <2>4, <3>1, <3>2, <3>3
  <2>6. /\ Tracked' = Tracked
        /\ buckets'[h] = [buckets[h] EXCEPT !.inFlight = @ - 1]
        /\ \A x \in Tracked \ {h} : buckets'[x] = buckets[x]
    BY <2>2, <2>3 DEF Tracked
  <2>7. /\ buckets'[h] \in Bucket /\ buckets'[h].inFlight = 0
        /\ buckets'[h].tokens = buckets[h].tokens /\ buckets'[h].idle = buckets[h].idle
    BY <2>2, <2>6 DEF Bucket
  <2>8. LeaseInv'
    <3>1. \A q \in Holders' : q \in Holders /\ q # r /\ req'[q] = req[q] /\ req[q].host # h
      BY <1>1, <2>1, <2>4 DEF LeaseInv, Holders
    <3>2. \A q \in Holders' : req'[q].host \in Tracked' /\ buckets'[req'[q].host].inFlight = 1
      BY <2>6, <3>1 DEF LeaseInv
    <3>3. \A q, p \in Holders' : req'[q].host = req'[p].host => q = p
      BY <3>1 DEF LeaseInv
    <3>4. \A x \in Tracked' :
            \/ buckets'[x].inFlight = 0
            \/ buckets'[x].inFlight = 1 /\ \E q \in Holders' : req'[q].host = x
      <4> SUFFICES ASSUME NEW x \in Tracked, x # h, buckets[x].inFlight # 0
                   PROVE  buckets'[x].inFlight = 1 /\ \E q \in Holders' : req'[q].host = x
        BY <2>6, <2>7
      <4>1. PICK q \in Holders : buckets[x].inFlight = 1 /\ req[q].host = x
        BY DEF LeaseInv
      <4>2. q \in Holders' /\ req'[q] = req[q]
        BY <4>1, <2>4, <1>1 DEF Holders
      <4> QED
        BY <2>6, <4>1, <4>2
    <3> QED
      BY <2>5, <3>2, <3>3, <3>4 DEF LeaseInv
  <2>9. DebtInv'
    BY <2>6, <2>7 DEF DebtInv
  <2> QED
    BY <2>5, <2>6, <2>7, <2>8, <2>9 DEF TypeOK
<1> QED
  BY <1>3, <1>4

\* The requests keep their type and their flags when one of them goes on to a
\* state that has both.
LEMMA RequestsKept ==
    ASSUME AdmissionInv, NEW r \in Requests, NEW s \in Request, Flags(s),
           req' = [req EXCEPT ![r] = s]
    PROVE  req' \in [Requests -> Request] /\ FlagsInv'
BY DEF AdmissionInv, TypeOK, FlagsInv, Flags, Active, Unsent

\* A bucket that is purged has been idle so long that its host owes nothing.
LEMMA PurgedOwesNothing ==
    ASSUME AdmissionInv, NEW h \in Hosts, h \notin DOMAIN PurgedIdle
    PROVE  debt[h] = 0 /\ \A r \in Holders : req[r].host # h
<1> USE DEF AdmissionInv
<1>1. CASE h \in Tracked
  <2>1. buckets[h] \in Bucket /\ buckets[h].inFlight = 0 /\ buckets[h].idle >= IdleTicks
    BY <1>1, PurgedIs DEF TypeOK
  <2>2. AtMost(buckets[h].tokens + buckets[h].idle, Burst) = Burst
    BY <2>1, BucketTyped, LimitsTyped DEF AtMost
  <2>3. debt[h] + Burst <= Burst /\ debt[h] \in Nat
    BY <1>1, <2>2 DEF DebtInv, TypeOK
  <2> QED
    BY <2>1, <2>3, LimitsTyped DEF LeaseInv
<1>2. CASE h \notin Tracked
  BY <1>2 DEF DebtInv, LeaseInv
<1> QED
  BY <1>1, <1>2

\* What admission finds in the bucket it looks at.
LEMMA LookedAt ==
    ASSUME AdmissionInv, NEW h \in Hosts, NEW b \in HostBucket(h)
    PROVE  /\ b \in Bucket /\ b.idle = 0 /\ debt[h] + b.tokens <= Burst
           /\ \/ b.inFlight = 0 /\ \A r \in Holders : req[r].host # h
              \/ b.inFlight = 1 /\ \E r \in Holders : req[r].host = h
<1> USE DEF AdmissionInv
<1>1. b \in Bucket /\ b.idle = 0
  BY HostBucketIs
<1>2. CASE h \in DOMAIN PurgedIdle
  <2>1. /\ b.inFlight = buckets[h].inFlight /\ h \in Tracked
        /\ b.tokens = AtMost(buckets[h].tokens + buckets[h].idle, Burst)
    BY <1>2, HostBucketIs, PurgedIs
  <2> QED
    BY <1>1, <2>1 DEF LeaseInv, DebtInv
<1>3. CASE h \notin DOMAIN PurgedIdle
  <2>1. b.inFlight = 0 /\ b.tokens = Burst
    BY <1>3, HostBucketIs
  <2> QED
    BY <1>1, <1>3, <2>1, PurgedOwesNothing, LimitsTyped
<1> QED
  BY <1>2, <1>3

\* The purge, and the refill of one bucket, change no lease and no debt: the
\* others are as they were, or have been purged and owe nothing.
LEMMA BooksKept ==
    ASSUME AdmissionInv, NEW h \in Hosts,
           \/ buckets' = PurgedIdle
           \/ \E b \in HostBucket(h) : buckets' = With(h, b),
           Holders' = Holders, \A q \in Holders : req'[q] = req[q],
           UNCHANGED <<globalInFlight, debt>>
    PROVE  /\ Tracked' \subseteq Hosts /\ \A x \in Tracked' : buckets'[x] \in Bucket
           /\ LeaseInv' /\ DebtInv'
<1> USE DEF AdmissionInv
<1>1. /\ DOMAIN PurgedIdle \subseteq Tracked /\ Tracked \subseteq Hosts
      /\ \A x \in DOMAIN PurgedIdle : PurgedIdle[x] = buckets[x] /\ buckets[x] \in Bucket
  BY PurgedIs DEF TypeOK
<1>2. CASE buckets' = PurgedIdle
  <2>1. Tracked' = DOMAIN PurgedIdle /\ \A x \in Tracked' : buckets'[x] = buckets[x]
    BY <1>1, <1>2 DEF Tracked
  <2>2. LeaseInv'
    BY <1>1, <2>1, PurgedOwesNothing DEF LeaseInv
  <2>3. DebtInv'
    BY <1>1, <2>1, PurgedOwesNothing DEF DebtInv
  <2> QED
    BY <1>1, <2>1, <2>2, <2>3
<1>3. ASSUME NEW b \in HostBucket(h), buckets' = With(h, b)
      PROVE  /\ Tracked' \subseteq Hosts /\ \A x \in Tracked' : buckets'[x] \in Bucket
             /\ LeaseInv' /\ DebtInv'
  <2>1. /\ Tracked' = DOMAIN PurgedIdle \cup {h} /\ buckets'[h] = b
        /\ \A x \in DOMAIN PurgedIdle \ {h} : buckets'[x] = buckets[x]
    <3>1. /\ DOMAIN With(h, b) = DOMAIN PurgedIdle \cup {h} /\ With(h, b)[h] = b
          /\ \A x \in DOMAIN PurgedIdle \ {h} : With(h, b)[x] = PurgedIdle[x]
      BY DEF With
    <3>2. DOMAIN buckets' = DOMAIN PurgedIdle \cup {h} /\ buckets'[h] = b
      BY <1>3, <3>1
    <3>3. ASSUME NEW x \in DOMAIN PurgedIdle \ {h} PROVE buckets'[x] = buckets[x]
      <4>1. buckets'[x] = PurgedIdle[x]
        BY <1>3, <3>1
      <4> QED
        BY <4>1, <1>1
    <3> QED
      BY <3>2, <3>3 DEF Tracked
  <2>2. /\ b \in Bucket /\ b.idle = 0 /\ debt[h] + b.tokens <= Burst
        /\ \/ b.inFlight = 0 /\ \A r \in Holders : req[r].host # h
           \/ b.inFlight = 1 /\ \E r \in Holders : req[r].host = h
    BY LookedAt
  <2>3. LeaseInv'
    <3>1. ASSUME NEW r \in Holders
          PROVE  req[r].host \in Tracked' /\ buckets'[req[r].host].inFlight = 1
      <4>1. req[r].host \in Hosts /\ buckets[req[r].host].inFlight = 1
        BY <1>1 DEF LeaseInv
      <4>2. CASE req[r].host = h
        BY <2>1, <2>2, <4>2
      <4>3. CASE req[r].host # h
        <5>1. req[r].host \in DOMAIN PurgedIdle
          BY <4>1, PurgedOwesNothing
        <5> QED
          BY <2>1, <4>1, <4>3, <5>1
      <4> QED
        BY <4>2, <4>3
    <3>2. \A x \in Tracked' :
            \/ buckets'[x].inFlight = 0
            \/ buckets'[x].inFlight = 1 /\ \E r \in Holders' : req'[r].host = x
      BY <1>1, <2>1, <2>2 DEF LeaseInv
    <3> QED
      BY <3>1, <3>2 DEF LeaseInv
  <2>4. DebtInv'
    <3>1. AtMost(b.tokens + b.idle, Burst) = b.tokens
      BY <2>2, BucketTyped, LimitsTyped DEF AtMost
    <3> QED
      BY <1>1, <2>1, <2>2, <3>1, PurgedOwesNothing DEF DebtInv
  <2> QED
    BY <1>1, <2>1, <2>2, <2>3, <2>4
<1> QED
  BY <1>2, <1>3

\* An admission: the host had nothing in flight and a token left, and takes both.
LEMMA AdmitStep ==
    ASSUME AdmissionInv, NEW r \in Requests, NEW h \in Hosts, Admit(r, h)
    PROVE  AdmissionInv'
<1> USE DEF AdmissionInv
<1>1. PICK b \in HostBucket(h) :
        /\ Admissible(b)
        /\ buckets' = With(h, [b EXCEPT !.tokens = @ - 1, !.inFlight = @ + 1])
  BY DEF Admit
<1> DEFINE c == [b EXCEPT !.tokens = @ - 1, !.inFlight = @ + 1]
           s == [Unsent EXCEPT !.phase = "whois", !.host = h,
                               !.global = TRUE, !.local = TRUE]
<1>2. /\ b \in Bucket /\ b.idle = 0 /\ debt[h] + b.tokens <= Burst
      /\ b.inFlight = 0 /\ \A q \in Holders : req[q].host # h
      /\ b.tokens \in Nat /\ b.tokens >= 1
  BY <1>1, LookedAt, BucketTyped DEF Admissible
<1>3. c \in Bucket /\ c.tokens = b.tokens - 1 /\ c.idle = 0 /\ c.inFlight = 1
  <2> DEFINE t == b.tokens
  <2>1. b = [tokens |-> t, idle |-> 0, inFlight |-> 0] /\ t \in Nat /\ t >= 1
    BY <1>2 DEF Bucket
  <2>2. t - 1 \in 0 .. Burst /\ 0 \in 0 .. IdleTicks
    BY <1>2, BucketTyped, LimitsTyped
  <2> HIDE DEF t
  <2>3. c = [tokens |-> t - 1, idle |-> 0, inFlight |-> 1]
    <3>1. c = [b EXCEPT !.tokens = t - 1, !.inFlight = 1]
      BY <1>2 DEF t
    <3> HIDE DEF c
    <3> QED
      BY <2>1, <3>1
  <2> HIDE DEF c
  <2>4. c \in Bucket
    BY <2>2, <2>3 DEF Bucket
  <2> QED
    BY <2>3, <2>4 DEF t
<1>4. s \in Request /\ Flags(s) /\ s.host = h /\ s.global /\ ~s.released
  BY DEF Unsent, Request, Flags, Active
<1>5. /\ req' = [req EXCEPT ![r] = s] /\ req[r].phase = "unsent"
      /\ globalInFlight' = globalInFlight + 1
      /\ debt' = [debt EXCEPT ![h] = @ + 1] /\ committed' = committed
  BY DEF Admit
<1>6. req' \in [Requests -> Request] /\ FlagsInv'
  BY <1>4, <1>5, RequestsKept
<1> HIDE DEF c, s
<1>7. req'[r] = s /\ \A q \in Requests \ {r} : req'[q] = req[q]
  BY <1>5 DEF TypeOK
<1>8. r \notin Holders /\ Holders' = Holders \cup {r} /\ r \in Holders'
  <2>1. ~Holds(r)
    BY <1>5, HolderIs DEF Active
  <2>2. Holds(r)' /\ \A q \in Requests \ {r} : Holds(q)' <=> Holds(q)
    BY <1>4, <1>7 DEF Holds
  <2> QED
    BY <2>1, <2>2 DEF Holders
<1>9. /\ IsFiniteSet(Holders') /\ Cardinality(Holders') = globalInFlight'
      /\ globalInFlight' \in Nat
  <2>1. IsFiniteSet(Holders) /\ globalInFlight = Cardinality(Holders)
    BY DEF LeaseInv
  <2>2. /\ IsFiniteSet(Holders \cup {r})
        /\ Cardinality(Holders \cup {r}) = Cardinality(Holders) + 1
    BY <1>8, <2>1, FS_AddElement
  <2>3. Cardinality(Holders \cup {r}) \in Nat
    BY <2>2, FS_CardinalityType
  <2> QED
    BY <1>5, <1>8, <2>1, <2>2, <2>3
<1>10. /\ DOMAIN PurgedIdle \subseteq Tracked /\ Tracked \subseteq Hosts
       /\ \A x \in DOMAIN PurgedIdle : PurgedIdle[x] = buckets[x] /\ buckets[x] \in Bucket
  BY PurgedIs DEF TypeOK
<1>11. /\ Tracked' = DOMAIN PurgedIdle \cup {h} /\ buckets'[h] = c
       /\ \A x \in DOMAIN PurgedIdle \ {h} : buckets'[x] = buckets[x]
  <2>1. buckets' = With(h, c)
    BY <1>1 DEF c
  <2>2. /\ DOMAIN With(h, c) = DOMAIN PurgedIdle \cup {h} /\ With(h, c)[h] = c
        /\ \A x \in DOMAIN PurgedIdle \ {h} : With(h, c)[x] = PurgedIdle[x]
    BY DEF With
  <2> QED
    BY <1>10, <2>1, <2>2 DEF Tracked
<1>12. TypeOK'
  <2>1. debt' \in [Hosts -> Nat]
    BY <1>5 DEF TypeOK
  <2>2. Tracked' \subseteq Hosts /\ \A x \in Tracked' : buckets'[x] \in Bucket
    BY <1>3, <1>10, <1>11
  <2> QED
    BY <1>5, <1>6, <1>9, <2>1, <2>2 DEF TypeOK
<1>13. LeaseInv'
  <2>1. \A q \in Holders : /\ q \in Requests \ {r} /\ req'[q] = req[q] /\ req[q].host # h
                           /\ req[q].host \in DOMAIN PurgedIdle
                           /\ buckets[req[q].host].inFlight = 1
    <3> SUFFICES ASSUME NEW q \in Holders
                 PROVE  /\ q \in Requests \ {r} /\ req'[q] = req[q] /\ req[q].host # h
                        /\ req[q].host \in DOMAIN PurgedIdle
                        /\ buckets[req[q].host].inFlight = 1
      OBVIOUS
    <3>1. q \in Requests \ {r} /\ req[q].host \in Tracked /\ buckets[req[q].host].inFlight = 1
      BY <1>8 DEF LeaseInv, Holders
    <3>2. req[q].host \in DOMAIN PurgedIdle
      BY <1>10, <3>1, PurgedOwesNothing
    <3> QED
      BY <1>2, <1>7, <3>1, <3>2
  <2>2. \A q \in Holders' : req'[q].host \in Tracked' /\ buckets'[req'[q].host].inFlight = 1
    BY <1>3, <1>4, <1>7, <1>8, <1>11, <2>1
  <2>3. \A q, p \in Holders' : req'[q].host = req'[p].host => q = p
    BY <1>4, <1>7, <1>8, <2>1 DEF LeaseInv
  <2>4. \A x \in Tracked' :
          \/ buckets'[x].inFlight = 0
          \/ buckets'[x].inFlight = 1 /\ \E q \in Holders' : req'[q].host = x
    <3> SUFFICES ASSUME NEW x \in Tracked', buckets'[x].inFlight # 0
                 PROVE  buckets'[x].inFlight = 1 /\ \E q \in Holders' : req'[q].host = x
      OBVIOUS
    <3>1. CASE x = h
      BY <1>3, <1>4, <1>7, <1>8, <1>11, <3>1
    <3>2. CASE x # h
      <4>1. x \in Tracked /\ buckets'[x] = buckets[x]
        BY <1>10, <1>11, <3>2
      <4>2. PICK q \in Holders : buckets[x].inFlight = 1 /\ req[q].host = x
        BY <4>1 DEF LeaseInv
      <4> QED
        BY <1>8, <2>1, <4>1, <4>2
    <3> QED
      BY <3>1, <3>2
  <2> QED
    BY <1>9, <2>2, <2>3, <2>4 DEF LeaseInv
<1>14. DebtInv'
  <2>1. debt'[h] = debt[h] + 1 /\ \A x \in Hosts \ {h} : debt'[x] = debt[x]
    BY <1>5 DEF TypeOK
  <2>2. debt'[h] + AtMost(c.tokens + c.idle, Burst) <= Burst
    <3>1. debt[h] \in Nat
      BY DEF TypeOK
    <3>2. AtMost(c.tokens + c.idle, Burst) = b.tokens - 1
      BY <1>2, <1>3, BucketTyped, LimitsTyped DEF AtMost
    <3> QED
      BY <1>2, <2>1, <3>1, <3>2, LimitsTyped
  <2>3. ASSUME NEW x \in Hosts, x # h
        PROVE  IF x \in Tracked'
               THEN debt'[x] + AtMost(buckets'[x].tokens + buckets'[x].idle, Burst) <= Burst
               ELSE debt'[x] = 0
    <3>1. CASE x \in DOMAIN PurgedIdle
      BY <1>10, <1>11, <2>1, <2>3, <3>1 DEF DebtInv
    <3>2. CASE x \notin DOMAIN PurgedIdle
      BY <1>11, <2>1, <2>3, <3>2, PurgedOwesNothing
    <3> QED
      BY <3>1, <3>2
  <2>4. h \in Tracked' /\ buckets'[h] = c
    BY <1>11
  <2> QED
    BY <2>2, <2>3, <2>4 DEF DebtInv
<1> QED
  BY <1>6, <1>12, <1>13, <1>14

\* A tick: the time a bucket has waited grows, and a debt is repaid.
LEMMA TickStep ==
    ASSUME AdmissionInv, Tick
    PROVE  AdmissionInv'
<1> USE DEF AdmissionInv
<1>1. Tracked' = Tracked /\ UNCHANGED <<req, globalInFlight, committed>>
  BY DEF Tick, Tracked
<1>2. ASSUME NEW h \in Tracked
      PROVE  /\ buckets'[h] \in Bucket /\ buckets'[h].inFlight = buckets[h].inFlight
             /\ buckets'[h].tokens = buckets[h].tokens
             /\ buckets'[h].idle = AtMost(buckets[h].idle + 1, IdleTicks)
  <2>1. buckets[h] \in Bucket
    BY DEF TypeOK
  <2>2. buckets'[h] = [buckets[h] EXCEPT !.idle = AtMost(@ + 1, IdleTicks)]
    BY DEF Tick
  <2>3. buckets[h].idle + 1 \in Nat
    BY <2>1, BucketTyped
  <2>4. AtMost(buckets[h].idle + 1, IdleTicks) \in 0 .. IdleTicks
    BY <2>3, LimitsTyped, AtMostIs
  <2> QED
    BY <2>1, <2>2, <2>4 DEF Bucket
<1>3. debt' \in [Hosts -> Nat] /\ \A h \in Hosts : debt'[h] = IF debt[h] = 0 THEN 0 ELSE debt[h] - 1
  <2>1. debt' = [h \in Hosts |-> IF debt[h] = 0 THEN 0 ELSE debt[h] - 1]
    BY DEF Tick
  <2>2. \A h \in Hosts : debt[h] \in Nat
    BY DEF TypeOK
  <2> QED
    BY <2>1, <2>2
<1>4. TypeOK' /\ FlagsInv'
  BY <1>1, <1>2, <1>3 DEF TypeOK, FlagsInv
<1>5. LeaseInv'
  <2>1. Holders' = Holders /\ \A r \in Holders : req'[r] = req[r]
    BY <1>1 DEF Holders, Holds
  <2> QED
    BY <1>1, <1>2, <2>1 DEF LeaseInv
<1>6. DebtInv'
  <2> SUFFICES ASSUME NEW h \in Hosts
               PROVE  IF h \in Tracked
                      THEN debt'[h] + AtMost(buckets'[h].tokens + buckets'[h].idle, Burst) <= Burst
                      ELSE debt'[h] = 0
    BY <1>1 DEF DebtInv
  <2>1. CASE h \in Tracked
    <3>1. buckets[h] \in Bucket
      BY <2>1 DEF TypeOK
    <3> DEFINE t == buckets[h].tokens
               i == buckets[h].idle
    <3>2. /\ t \in Nat /\ t <= Burst /\ i \in Nat /\ i <= IdleTicks /\ debt[h] \in Nat
          /\ debt[h] + AtMost(t + i, Burst) <= Burst
      BY <2>1, <3>1, BucketTyped DEF TypeOK, DebtInv
    <3>3. buckets'[h].tokens = t /\ buckets'[h].idle = AtMost(i + 1, IdleTicks)
      BY <1>2, <2>1
    <3>4. debt'[h] = IF debt[h] = 0 THEN 0 ELSE debt[h] - 1
      BY <1>3
    <3> HIDE DEF t, i
    <3>5. debt'[h] + AtMost(t + AtMost(i + 1, IdleTicks), Burst) <= Burst
      BY <3>2, <3>4, LimitsTyped DEF AtMost
    <3> QED
      BY <2>1, <3>3, <3>5
  <2>2. CASE h \notin Tracked
    BY <1>3, <2>2 DEF DebtInv
  <2> QED
    BY <2>1, <2>2
<1> QED
  BY <1>4, <1>5, <1>6

\* The end of a request keeps the type of its state, and what its flags say.
LEMMA EndedIs ==
    ASSUME NEW x \in Request, NEW answer \in {"refused", "served"}
    PROVE  /\ Ended(x, answer) \in Request /\ Flags(Ended(x, answer))
           /\ Ended(x, answer).released
BY DEF Ended, Request, Flags, Active, Unsent

\* A refusal at the door: the request never held a lease.
LEMMA RefusalStep ==
    ASSUME AdmissionInv, NEW r \in Requests, NEW h \in Hosts,
           Busy(r, h) \/ RateLimited(r, h)
    PROVE  AdmissionInv'
<1> USE DEF AdmissionInv
<1>1. PICK x \in Request : req' = [req EXCEPT ![r] = Ended(x, "refused")]
  <2>1. Unsent \in Request
    BY DEF Unsent, Request
  <2>2. /\ [Unsent EXCEPT !.host = h] \in Request
        /\ [Unsent EXCEPT !.host = h, !.global = TRUE] \in Request
    BY <2>1 DEF Unsent, Request
  <2> QED
    BY <2>2 DEF Busy, RateLimited
<1>2. /\ Ended(x, "refused") \in Request /\ Flags(Ended(x, "refused"))
      /\ Ended(x, "refused").released
  BY EndedIs
<1>3. req' \in [Requests -> Request] /\ FlagsInv'
  BY <1>1, <1>2, RequestsKept
<1>4. Holders' = Holders /\ \A q \in Holders : req'[q] = req[q]
  <2>1. req'[r].released /\ \A q \in Requests \ {r} : req'[q] = req[q]
    BY <1>1, <1>2 DEF TypeOK
  <2>2. ~Holds(r) /\ ~Holds(r)'
    BY <2>1, HolderIs DEF Busy, RateLimited, Active, Holds
  <2> QED
    BY <2>1, <2>2 DEF Holders, Holds
<1>5. CASE Busy(r, h)
  <2>1. UNCHANGED <<globalInFlight, buckets, committed, debt>>
    BY <1>5 DEF Busy
  <2>2. TypeOK' /\ DebtInv'
    BY <1>3, <2>1 DEF TypeOK, DebtInv, Tracked
  <2>3. LeaseInv'
    BY <1>4, <2>1 DEF LeaseInv, Tracked
  <2> QED
    BY <1>3, <2>2, <2>3
<1>6. CASE RateLimited(r, h)
  <2>1. /\ \/ buckets' = PurgedIdle
           \/ \E b \in HostBucket(h) : buckets' = With(h, b)
        /\ UNCHANGED <<globalInFlight, committed, debt>>
    BY <1>6 DEF RateLimited
  <2>2. /\ Tracked' \subseteq Hosts /\ \A y \in Tracked' : buckets'[y] \in Bucket
        /\ LeaseInv' /\ DebtInv'
    BY <1>4, <2>1, BooksKept
  <2>3. TypeOK'
    BY <1>3, <2>1, <2>2 DEF TypeOK
  <2> QED
    BY <1>3, <2>2, <2>3
<1> QED
  BY <1>5, <1>6

\* The end of an admitted request, by a refusal, by the transaction or behind
\* the deadline, and the deadline itself.
LEMMA EndStep ==
    ASSUME AdmissionInv, NEW r \in Requests, Refuse(r) \/ Persist(r) \/ Deadline(r)
    PROVE  AdmissionInv'
<1> USE DEF AdmissionInv
<1> DEFINE late == [req[r] EXCEPT !.aborted = TRUE, !.released = TRUE, !.answer = "timeout"]
<1>1. req[r] \in Request /\ Flags(req[r]) /\ req[r].phase \in Active
  BY DEF TypeOK, FlagsInv, Refuse, Persist, Deadline, Active
<1>2. PICK s \in Request : req' = [req EXCEPT ![r] = s] /\ Flags(s) /\ s.released
  <2>1. CASE Refuse(r)
    BY <1>1, <2>1, EndedIs DEF Refuse
  <2>2. CASE Persist(r)
    BY <1>1, <2>2, EndedIs DEF Persist
  <2>3. CASE Deadline(r)
    <3>1. late \in Request /\ Flags(late) /\ late.released
      BY <1>1 DEF Request, Flags, Active, Unsent
    <3>2. req' = [req EXCEPT ![r] = late]
      BY <2>3 DEF Deadline
    <3> QED
      BY <3>1, <3>2
  <2> QED
    BY <2>1, <2>2, <2>3
<1>3. Release(r) /\ debt' = debt /\ committed' \subseteq committed \cup {r}
  BY DEF Refuse, Persist, Deadline
<1>4. req' \in [Requests -> Request] /\ FlagsInv'
  BY <1>2, RequestsKept
<1>5. /\ globalInFlight' \in Nat
      /\ Tracked' = Tracked /\ \A h \in Tracked : buckets'[h] \in Bucket
      /\ LeaseInv' /\ DebtInv'
  BY <1>1, <1>2, <1>3, ReleaseReturns
<1>6. TypeOK'
  BY <1>3, <1>4, <1>5 DEF TypeOK
<1> QED
  BY <1>4, <1>5, <1>6

\* The core goes on after an await.
LEMMA AwaitStep ==
    ASSUME AdmissionInv, NEW r \in Requests, Identified(r) \/ BodyRead(r)
    PROVE  AdmissionInv'
<1> USE DEF AdmissionInv
<1>1. PICK p \in {"body", "key"} : req' = [req EXCEPT ![r].phase = p]
  BY DEF Identified, BodyRead
<1> DEFINE s == [req[r] EXCEPT !.phase = p]
<1>2. req[r] \in Request /\ Flags(req[r]) /\ req[r].phase \in Active
  BY DEF TypeOK, FlagsInv, Identified, BodyRead, Active
<1>3. /\ s \in Request /\ Flags(s) /\ s.global = req[r].global
      /\ s.released = req[r].released /\ s.host = req[r].host
  BY <1>2 DEF Request, Flags, Active, Unsent
<1>4. req' = [req EXCEPT ![r] = s]
  BY <1>1 DEF TypeOK
<1> HIDE DEF s
<1>5. req' \in [Requests -> Request] /\ FlagsInv'
  BY <1>3, <1>4, RequestsKept
<1>6. UNCHANGED <<globalInFlight, buckets, committed, debt>>
  BY DEF Identified, BodyRead
<1>7. TypeOK' /\ DebtInv'
  BY <1>5, <1>6 DEF TypeOK, DebtInv, Tracked
<1>8. LeaseInv'
  <2>1. \A q \in Requests : req'[q].host = req[q].host /\ (Holds(q)' <=> Holds(q))
    BY <1>3, <1>4 DEF TypeOK, Holds
  <2>2. Holders' = Holders /\ \A q \in Holders : req'[q].host = req[q].host
    BY <2>1 DEF Holders
  <2> QED
    BY <1>6, <2>2 DEF LeaseInv, Tracked
<1> QED
  BY <1>5, <1>7, <1>8

\* Every step of the endpoint keeps its books.
LEMMA AdmissionStep == AdmissionInv /\ [Next]_vars => AdmissionInv'
<1> SUFFICES ASSUME AdmissionInv, [Next]_vars PROVE AdmissionInv'
  OBVIOUS
<1>1. ASSUME NEW r \in Requests, NEW h \in Hosts,
             Busy(r, h) \/ RateLimited(r, h) \/ Admit(r, h)
      PROVE  AdmissionInv'
  BY <1>1, RefusalStep, AdmitStep
<1>2. ASSUME NEW r \in Requests,
             \/ Refuse(r) \/ Identified(r) \/ BodyRead(r)
             \/ Persist(r) \/ Deadline(r)
      PROVE  AdmissionInv'
  BY <1>2, EndStep, AwaitStep
<1>3. CASE Tick
  BY <1>3, TickStep
<1>4. CASE UNCHANGED vars
  <2>1. UNCHANGED <<req, globalInFlight, buckets, committed, debt>>
    BY <1>4 DEF vars
  <2>2. Holders' = Holders
    BY <2>1 DEF Holders, Holds
  <2>3. LeaseInv'
    BY <2>1, <2>2 DEF AdmissionInv, LeaseInv, Tracked
  <2>4. TypeOK' /\ FlagsInv' /\ DebtInv'
    BY <2>1 DEF AdmissionInv, TypeOK, FlagsInv, DebtInv, Tracked
  <2> QED
    BY <2>3, <2>4 DEF AdmissionInv
<1> QED
  BY <1>1, <1>2, <1>3, <1>4 DEF Next

\* The lease of a host is the lease of one request: the number that a bucket
\* keeps is the number of holders.
LEMMA LeasesCounted == AdmissionInv => LeasesAccounted
<1> SUFFICES ASSUME AdmissionInv PROVE LeasesAccounted
  OBVIOUS
<1> USE DEF AdmissionInv
<1>1. globalInFlight = Cardinality({r \in Requests : Holds(r)})
  BY DEF LeaseInv, Holders
<1>2. ASSUME NEW h \in Tracked
      PROVE  buckets[h].inFlight = Cardinality({r \in Requests : Holds(r) /\ req[r].host = h})
  <2> DEFINE ofHost == {r \in Requests : Holds(r) /\ req[r].host = h}
  <2>1. ofHost = {r \in Holders : req[r].host = h}
    BY DEF Holders
  <2>2. CASE \E r \in Holders : req[r].host = h
    <3>1. PICK r \in Holders : req[r].host = h
      BY <2>2
    <3>2. buckets[h].inFlight = 1
      BY <3>1 DEF LeaseInv
    <3>3. ofHost = {r}
      BY <2>1, <3>1 DEF LeaseInv
    <3> QED
      BY <3>2, <3>3, FS_Singleton
  <2>3. CASE ~ \E r \in Holders : req[r].host = h
    <3>1. buckets[h].inFlight = 0
      BY <2>3 DEF LeaseInv
    <3>2. ofHost = {}
      BY <2>1, <2>3
    <3> QED
      BY <3>1, <3>2, FS_EmptySet
  <2> QED
    BY <2>2, <2>3
<1>3. /\ \A r \in Requests : Holds(r) => req[r].host \in Tracked
      /\ \A r, q \in Requests :
           r # q /\ Holds(r) /\ Holds(q) => req[r].host # req[q].host
  BY DEF LeaseInv, Holders
<1>4. ASSUME NEW h \in Hosts PROVE debt[h] <= Burst
  <2>1. debt[h] \in Nat
    BY DEF TypeOK
  <2>2. CASE h \in Tracked
    <3>1. buckets[h].tokens + buckets[h].idle \in Nat
      BY <2>2, BucketTyped DEF TypeOK
    <3>2. AtMost(buckets[h].tokens + buckets[h].idle, Burst) \in Nat
      BY <3>1, LimitsTyped DEF AtMost
    <3> QED
      BY <2>1, <2>2, <3>2, LimitsTyped DEF DebtInv
  <2>3. CASE h \notin Tracked
    BY <2>3, LimitsTyped DEF DebtInv
  <2> QED
    BY <2>2, <2>3
<1> QED
  BY <1>1, <1>2, <1>3, <1>4 DEF LeasesAccounted

-----------------------------------------------------------------------------

\* The variables keep their types: no counter of the admission goes below zero,
\* and no bucket holds more tokens than its burst.
THEOREM AdmissionTyped == Spec => []TypeOK
BY AdmissionInit, AdmissionStep, PTL DEF Spec, AdmissionInv

\* The counters are the leases that are out, whatever the order in which the
\* deadline, the awaits and the end of a request come; a host has one request in
\* flight, and is admitted at most Burst times more than time has repaid, also
\* across the purge of its bucket.
THEOREM LeasesCorrect == Spec => []LeasesAccounted
<1>1. Spec => []AdmissionInv
  BY AdmissionInit, AdmissionStep, PTL DEF Spec
<1> QED
  BY <1>1, LeasesCounted, PTL

\* A batch is committed while its request holds its leases, and a request that
\* the deadline answered commits nothing.
THEOREM CommitsCorrect == Spec => CommitUnderLease
<1>1. ASSUME AdmissionInv, [Next]_vars
      PROVE  [\A r \in committed' \ committed :
                Holds(r) /\ req'[r].answer = "served"]_vars
  <2> SUFFICES ASSUME NEW r \in committed' \ committed
               PROVE  Holds(r) /\ req'[r].answer = "served"
    OBVIOUS
  <2>1. r \in Requests /\ Persist(r)
    BY <1>1 DEF Next, vars, Busy, RateLimited, Admit, Refuse, Identified, BodyRead,
                Persist, Deadline, Tick
  <2>2. req[r] \in Request /\ Flags(req[r])
    BY <1>1, <2>1 DEF AdmissionInv, TypeOK, FlagsInv
  <2>3. ~req[r].released /\ req[r].global /\ req[r].answer = "none"
    BY <2>1, <2>2 DEF Persist, Flags, Active
  <2>4. req'[r].answer = "served"
    BY <1>1, <2>1, <2>2, <2>3 DEF Persist, Ended, AdmissionInv, TypeOK, Request
  <2> QED
    BY <2>3, <2>4 DEF Holds
<1>2. Spec => []AdmissionInv
  BY AdmissionInit, AdmissionStep, PTL DEF Spec
<1> QED
  BY <1>1, <1>2, PTL DEF Spec, CommitUnderLease
=============================================================================
