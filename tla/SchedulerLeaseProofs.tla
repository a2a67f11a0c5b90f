------------------------ MODULE SchedulerLeaseProofs ------------------------
(***************************************************************************)
(* Proofs about the scheduler lease, for every number of schedulers, every *)
(* timing that the settings validator accepts and any number of faults.    *)
(***************************************************************************)
EXTENDS SchedulerLease, TLAPS

\* The inductive invariant: LeaderOwns says how much of the lease is left, which
\* is why a tick can never expire it under a scheduler whose thread is on time.
IInv == TypeOK /\ LeaderOwns

LEMMA LessType ==
  ASSUME NEW n \in Nat
  PROVE  Less(n) \in Nat /\ Less(n) <= n /\ (n > 0 => Less(n) = n - 1)
BY DEF Less

LEMMA InitIInv == Init => IInv
BY TimingAssumption, OwnerAssumption, FaultsAssumption
   DEF Init, IInv, TypeOK, LeaderOwns, Renewing

\* Every step keeps the types: timers stay within the interval they were set to.
LEMMA TypePreserved == TypeOK /\ [Next]_vars => TypeOK'
<1> SUFFICES ASSUME TypeOK, [Next]_vars PROVE TypeOK'
    OBVIOUS
<1> USE TimingAssumption, OwnerAssumption, FaultsAssumption DEF TypeOK
<1>1. ASSUME NEW s \in Schedulers, Lead(s) PROVE TypeOK'
      BY <1>1 DEF Lead
<1>2. ASSUME NEW s \in Schedulers, Follow(s) PROVE TypeOK'
      BY <1>2 DEF Follow, Fault, Wait
<1>3. ASSUME NEW s \in Schedulers, RenewLease(s) PROVE TypeOK'
  <2>1. lost' \in [Schedulers -> BOOLEAN]
        BY <1>3, Zenon DEF RenewLease
  <2>2. ttl' \in 0 .. Lease /\ renew' \in [Schedulers -> 0 .. Refresh]
        BY <1>3 DEF RenewLease
  <2>3. faults' \in 0 .. MaxFaults
        BY <1>3 DEF RenewLease, Fault
  <2> QED BY <1>3, <2>1, <2>2, <2>3 DEF RenewLease
<1>4. ASSUME NEW s \in Schedulers, EndCycles(s) PROVE TypeOK'
      BY <1>4 DEF EndCycles, Wait
<1>5. ASSUME NEW s \in Schedulers, Shutdown(s) PROVE TypeOK'
      BY <1>5 DEF Shutdown, Fault, Abandon
<1>6. ASSUME NEW s \in Schedulers, Kill(s) PROVE TypeOK'
      BY <1>6 DEF Kill, Fault, Abandon
<1>7. ASSUME NEW s \in Schedulers, Restart(s) PROVE TypeOK'
      BY <1>7 DEF Restart
<1>8. ASSUME NEW s \in Schedulers, Stall(s) \/ Resume(s) PROVE TypeOK'
  <2>1. stalled' \in [Schedulers -> BOOLEAN]
        BY <1>8, Zenon DEF Stall, Resume
  <2>2. faults' \in 0 .. MaxFaults
        BY <1>8 DEF Stall, Resume, Fault
  <2> QED BY <1>8, <2>1, <2>2 DEF Stall, Resume
<1>9. CASE Tick
      BY <1>9 DEF Tick, Less
<1>10. CASE UNCHANGED vars
      BY <1>10 DEF vars
<1> QED BY <1>1, <1>2, <1>3, <1>4, <1>5, <1>6, <1>7, <1>8, <1>9, <1>10 DEF Next, Act

LEMMA LeaderPreserved == IInv /\ [Next]_vars => LeaderOwns'
<1> SUFFICES ASSUME IInv, [Next]_vars,
                    NEW t \in Schedulers, Renewing(t)', renew'[t] > 0
             PROVE  (owner = t /\ ttl >= Lease - Refresh + renew[t])'
    BY DEF LeaderOwns
<1> USE TimingAssumption, OwnerAssumption DEF IInv, TypeOK, LeaderOwns, Renewing
<1>1. ASSUME NEW s \in Schedulers, Lead(s)
      PROVE (owner = t /\ ttl >= Lease - Refresh + renew[t])'
  <2>1. CASE s = t
        BY <1>1, <2>1 DEF Lead
  <2>2. CASE s # t   \* the lease was t's, and s would not have got it
        BY <1>1, <2>2 DEF Lead
  <2> QED BY <2>1, <2>2
<1>2. ASSUME NEW s \in Schedulers, Follow(s)
      PROVE (owner = t /\ ttl >= Lease - Refresh + renew[t])'
      BY <1>2 DEF Follow
<1>3. ASSUME NEW s \in Schedulers, RenewLease(s)
      PROVE (owner = t /\ ttl >= Lease - Refresh + renew[t])'
      BY <1>3 DEF RenewLease
<1>4. ASSUME NEW s \in Schedulers, EndCycles(s)
      PROVE (owner = t /\ ttl >= Lease - Refresh + renew[t])'
      BY <1>4 DEF EndCycles
<1>5. ASSUME NEW s \in Schedulers, Shutdown(s)
      PROVE (owner = t /\ ttl >= Lease - Refresh + renew[t])'
      BY <1>5 DEF Shutdown, Abandon
<1>6. ASSUME NEW s \in Schedulers, Kill(s)
      PROVE (owner = t /\ ttl >= Lease - Refresh + renew[t])'
      BY <1>6 DEF Kill, Abandon
<1>7. ASSUME NEW s \in Schedulers, Restart(s)
      PROVE (owner = t /\ ttl >= Lease - Refresh + renew[t])'
      BY <1>7 DEF Restart
<1>8. ASSUME NEW s \in Schedulers, Stall(s) \/ Resume(s)
      PROVE (owner = t /\ ttl >= Lease - Refresh + renew[t])'
      BY <1>8 DEF Stall, Resume
<1>9. CASE Tick   \* the lease outlives the next renewal
  <2>1. renew[t] > 0 /\ renew'[t] = renew[t] - 1
        BY <1>9 DEF Tick, Less
  <2>2. owner = t /\ ttl >= Lease - Refresh + renew[t]
        BY <1>9, <2>1 DEF Tick
  <2>3. ttl > 1 /\ ttl' = ttl - 1
        BY <1>9, <2>1, <2>2 DEF Tick, Less
  <2> QED BY <1>9, <2>1, <2>2, <2>3 DEF Tick
<1>10. CASE UNCHANGED vars
      BY <1>10 DEF vars
<1> QED BY <1>1, <1>2, <1>3, <1>4, <1>5, <1>6, <1>7, <1>8, <1>9, <1>10 DEF Next, Act

LEMMA Inductive == Spec => []IInv
<1>1. IInv /\ [Next]_vars => IInv'
      BY TypePreserved, LeaderPreserved DEF IInv
<1> QED BY InitIInv, <1>1, PTL DEF Spec

\* Every variable keeps its type.
THEOREM TypeCorrect == Spec => []TypeOK
<1>1. IInv => TypeOK
      BY DEF IInv
<1> QED BY Inductive, <1>1, PTL

\* A scheduler whose renewal thread is on time owns the lease, long enough to
\* reach its next renewal.
THEOREM LeaderOwnsLease == Spec => []LeaderOwns
<1>1. IInv => LeaderOwns
      BY DEF IInv
<1> QED BY Inductive, <1>1, PTL

\* Two schedulers run the cycles at once only after one has lost the lease or
\* is late: the lease has one owner and both would own it.
THEOREM NoUnnoticedOverlap == Spec => []OverlapOnlyAfterLoss
<1>1. IInv => OverlapOnlyAfterLoss
  <2> SUFFICES ASSUME IInv, NEW s \in Schedulers, NEW t \in Schedulers, s # t,
                      state[s] = "running", state[t] = "running",
                      \A u \in {s, t} : ~lost[u] /\ renew[u] # 0
               PROVE  FALSE
      BY DEF OverlapOnlyAfterLoss, IInv, TypeOK
  <2>1. owner = s
        BY DEF IInv, TypeOK, LeaderOwns, Renewing
  <2>2. owner = t
        BY DEF IInv, TypeOK, LeaderOwns, Renewing
  <2> QED BY <2>1, <2>2
<1> QED BY Inductive, <1>1, PTL

=============================================================================
