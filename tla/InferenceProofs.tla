-------------------------- MODULE InferenceProofs ---------------------------
(***************************************************************************)
(* The inference element, its runtimes and the vendor backends.            *)
(*                                                                         *)
(* First part: for any number of runtimes, packets and sequence numbers    *)
(* and any backend, the shared counter, the runtimes and the element's     *)
(* table of pending submissions agree, and end of stream goes out after    *)
(* every result.                                                           *)
(*                                                                         *)
(* Second part: for each backend, any number of ports, shapes, requests    *)
(* and calls, whichever native call fails, every native object keeps one   *)
(* owner, is released after what needs it, and no run answers with an old  *)
(* shape.                                                                  *)
(***************************************************************************)
EXTENDS InferenceElement, OpenVino, FiniteSetTheorems, SequenceTheorems, WellFoundedInduction, TLAPS

\* The history and the backend's books say the same of every sequence number,
\* and the ones not drawn yet are unused.
FateOK ==
    \A r \in Runtimes, s \in Sequences :
        /\ fate[r][s] = "out" <=> s \in Outstanding(r)
        /\ s >= nextSequence[r] => fate[r][s] = "unused"

\* A backend queues its requests or parks their outputs, never both.
OneHolder == \A r \in Runtimes : IF Async THEN parked[r] = {} ELSE queued[r] = {}

RuntimeInv == RuntimeTypeOK /\ FateOK /\ OneHolder /\ InFlightExact

NoneUnconfirmed == \A r \in Runtimes, s \in Sequences : fate[r][s] # "unconfirmed"

\* While the element runs, pending has one entry for each submission that is out.
PendingOK ==
    /\ pc \in {"loop", "sending"} => {<<e[1], e[2]>> : e \in pending} = Pairs(Runtimes)
    /\ \A e, f \in pending : e[1] = f[1] /\ e[2] = f[2] => e = f

\* While the element runs, every packet that came in is in exactly one place: sent,
\* waiting for its result, or in the element's hands.
PacketsOK ==
    /\ IsInjective(emitted)
    /\ ToSet(emitted) \cap Numbers(pending) = {}
    /\ \A e, f \in pending : e[3] = f[3] => e = f
    /\ holding \in 0 .. received /\ holding \notin ToSet(emitted) \cup Numbers(pending)
    /\ pc = "loop" => holding = 0
    /\ pc = "sending" => holding # 0
    /\ ToSet(emitted) \cup Numbers(pending) \subseteq 1 .. received
    /\ pc \in {"loop", "sending"} =>
         1 .. received \subseteq ToSet(emitted) \cup Numbers(pending) \cup {holding}
    /\ ended => pc = "done" /\ ToSet(emitted) = 1 .. received

ElementInv == PendingOK /\ (~Exited => NoneUnconfirmed) /\ ExitReleases

IInv == TypeOK /\ RuntimeInv /\ ElementInv /\ PacketsOK

-----------------------------------------------------------------------------
(* The runtimes *)

Outcomes == {"unused", "out", "refused", "ready", "error", "cancelled", "unconfirmed"}

\* Pairs of a runtime and a sequence number can be counted.
LEMMA PairsFinite ==
    /\ IsFiniteSet(Runtimes \X Sequences) /\ IsFiniteSet(Sequences)
    /\ \A T \in SUBSET (Runtimes \X Sequences) : IsFiniteSet(T) /\ Cardinality(T) \in Nat
<1>1. IsFiniteSet(Sequences)
  BY RuntimeAssumption, FS_Interval DEF Sequences
<1>2. IsFiniteSet(Runtimes \X Sequences)
  BY <1>1, RuntimeAssumption, FS_Product
<1>3. ASSUME NEW T \in SUBSET (Runtimes \X Sequences) PROVE IsFiniteSet(T) /\ Cardinality(T) \in Nat
  <2>1. IsFiniteSet(T)
    BY <1>2, FS_Subset
  <2> QED BY <2>1, FS_CardinalityType
<1> QED BY <1>1, <1>2, <1>3

\* A pair is out exactly when the runtime holds it.
LEMMA OutIsPairs ==
  ASSUME FateOK
  PROVE  /\ Open({"out", "unconfirmed"}) = Pairs(Runtimes) \cup Open({"unconfirmed"})
         /\ Pairs(Runtimes) = Open({"out"})
BY DEF FateOK, Open, Pairs

\* Without refused cancels the shared counter is the number of pairs.
LEMMA CounterIsPairs ==
  ASSUME RuntimeInv, NoneUnconfirmed
  PROVE  inFlight = Cardinality(Pairs(Runtimes))
<1>1. Open({"unconfirmed"}) = {}
  BY DEF NoneUnconfirmed, Open
<1>2. Open({"out", "unconfirmed"}) = Pairs(Runtimes)
  BY <1>1, OutIsPairs DEF RuntimeInv
<1> QED BY <1>2 DEF RuntimeInv, InFlightExact

\* A runtime holds no more than all runtimes together.
LEMMA OneOfMany ==
  ASSUME RuntimeTypeOK, NEW r \in Runtimes
  PROVE  /\ IsFiniteSet(Outstanding(r)) /\ Cardinality(Outstanding(r)) \in Nat
         /\ Cardinality(Outstanding(r)) <= Cardinality(Pairs(Runtimes))
<1>1. Outstanding(r) \subseteq Sequences
  BY DEF Outstanding, RuntimeTypeOK
<1>2. IsFiniteSet(Outstanding(r)) /\ Cardinality(Outstanding(r)) \in Nat
  BY <1>1, PairsFinite, FS_Subset, FS_CardinalityType
<1>3. IsFiniteSet(Pairs(Runtimes))
  BY PairsFinite DEF Pairs
<1> DEFINE f == [s \in Outstanding(r) |-> <<r, s>>]
<1>4. f \in Injection(Outstanding(r), Pairs(Runtimes))
  BY <1>1 DEF Injection, IsInjective, Pairs
<1>5. Cardinality(Outstanding(r)) <= Cardinality(Pairs(Runtimes))
  BY <1>3, <1>4, FS_Injection
<1> QED BY <1>2, <1>5

\* What the device-facing count has to do with it.
LEMMA CountIsOutstanding ==
  ASSUME RuntimeInv, NEW r \in Runtimes
  PROVE  CurrentInFlight(r) = Cardinality(Outstanding(r))
<1>1. Outstanding(r) = IF Async THEN queued[r] ELSE parked[r]
  BY DEF RuntimeInv, OneHolder, Outstanding
<1> QED BY <1>1 DEF CurrentInFlight

\* submit takes a new sequence number, and the counter follows.
LEMMA SubmitKeeps ==
  ASSUME RuntimeInv, NothingReady, NEW r \in Runtimes, Submit(r)
  PROVE  /\ RuntimeInv' /\ (NoneUnconfirmed => NoneUnconfirmed')
         /\ nextSequence[r] \in Sequences /\ <<r, nextSequence[r]>> \notin Pairs(Runtimes)
         /\ Pairs(Runtimes)' = Pairs(Runtimes) \cup {<<r, nextSequence[r]>>}
<1>t. RuntimeTypeOK /\ FateOK /\ OneHolder /\ InFlightExact
  BY DEF RuntimeInv
<1>0. PICK s \in Sequences : s = nextSequence[r]
  BY <1>t, RuntimeAssumption DEF Submit, CanSubmit, RuntimeTypeOK, Sequences
<1>1. fate[r][s] = "unused" /\ s \notin Outstanding(r)
  <2>1. s >= nextSequence[r]
    BY <1>0 DEF Sequences
  <2> QED BY <1>t, <2>1 DEF FateOK
<1>2. /\ backend' = backend /\ inFlight' = inFlight + 1
      /\ nextSequence' = [nextSequence EXCEPT ![r] = s + 1]
      /\ fate' = [fate EXCEPT ![r][s] = "out"]
  BY <1>0 DEF Submit
<1>3. \A q \in Runtimes, t \in Sequences :
         fate'[q][t] = IF q = r /\ t = s THEN "out" ELSE fate[q][t]
  BY <1>t, <1>2 DEF RuntimeTypeOK
<1>4. fate' \in [Runtimes -> [Sequences -> Outcomes]]
  BY <1>t, <1>2 DEF RuntimeTypeOK, Outcomes
<1>5. /\ queued' \in [Runtimes -> SUBSET Sequences] /\ parked' \in [Runtimes -> SUBSET Sequences]
      /\ \A q \in Runtimes : Outstanding(q)' = IF q = r THEN Outstanding(q) \cup {s} ELSE Outstanding(q)
      /\ OneHolder'
  <2>1. CASE Async /\ queued' = [queued EXCEPT ![r] = queued[r] \cup {s}] /\ parked' = parked
    BY <1>t, <1>2, <2>1 DEF RuntimeTypeOK, Outstanding, OneHolder, Async
  <2>2. CASE ~Async /\ parked' = [parked EXCEPT ![r] = {s}] /\ queued' = queued
    <3>1. parked[r] = {}
      BY DEF NothingReady
    <3> QED BY <1>t, <1>2, <2>2, <3>1 DEF RuntimeTypeOK, Outstanding, OneHolder, Async
  <2> QED BY <1>0, <2>1, <2>2 DEF Submit
<1>6. ASSUME NEW q \in Runtimes PROVE Cardinality(Outstanding(q)') <= MaxInFlight
  <2>1. CASE q = r
    <3>1. IsFiniteSet(Outstanding(q)) /\ Cardinality(Outstanding(q)) \in Nat
      BY <1>t, OneOfMany
    <3>2. Cardinality(Outstanding(q) \cup {s}) = Cardinality(Outstanding(q)) + 1
      BY <1>1, <2>1, <3>1, FS_AddElement
    <3>3. Cardinality(Outstanding(q)) < MaxInFlight /\ MaxInFlight \in Nat
      BY <1>t, <2>1, CountIsOutstanding, RuntimeAssumption
         DEF Submit, CanSubmit, MaxInFlight, RuntimeTypeOK
    <3>4. Outstanding(q)' = Outstanding(q) \cup {s}
      BY <1>5, <2>1
    <3>5. Cardinality(Outstanding(q)) + 1 <= MaxInFlight
      BY <3>1, <3>3
    <3> QED BY <3>2, <3>4, <3>5
  <2>2. CASE q # r
    BY <1>t, <1>5, <2>2 DEF RuntimeTypeOK
  <2> QED BY <2>1, <2>2
<1>7. nextSequence' \in [Runtimes -> 0 .. MaxSequence]
  <2>1. s + 1 \in 0 .. MaxSequence
    BY RuntimeAssumption DEF Sequences
  <2> QED BY <1>t, <1>2, <2>1 DEF RuntimeTypeOK
<1>8. RuntimeTypeOK'
  BY <1>t, <1>2, <1>4, <1>5, <1>6, <1>7 DEF RuntimeTypeOK, Outcomes, MaxInFlight
<1>9. FateOK'
  <2>1. ASSUME NEW q \in Runtimes, NEW t \in Sequences
        PROVE  /\ fate'[q][t] = "out" <=> t \in Outstanding(q)'
               /\ t >= nextSequence'[q] => fate'[q][t] = "unused"
    <3>1. fate'[q][t] = "out" <=> t \in Outstanding(q)'
      BY <1>t, <1>3, <1>5 DEF FateOK
    <3>2. ASSUME t >= nextSequence'[q] PROVE fate'[q][t] = "unused"
      <4>1. CASE q = r
        <5>1. nextSequence'[q] = s + 1 /\ s \in Nat /\ t \in Nat
          BY <1>t, <1>2, <4>1 DEF RuntimeTypeOK, Sequences
        <5>2. t >= nextSequence[q] /\ t # s
          BY <1>0, <3>2, <4>1, <5>1
        <5> QED BY <1>t, <1>3, <5>2 DEF FateOK
      <4>2. CASE q # r
        BY <1>t, <1>2, <1>3, <3>2, <4>2 DEF FateOK, RuntimeTypeOK
      <4> QED BY <4>1, <4>2
    <3> QED BY <3>1, <3>2
  <2> QED BY <2>1 DEF FateOK
<1>10. Open({"out", "unconfirmed"})' = Open({"out", "unconfirmed"}) \cup {<<r, s>>}
       /\ <<r, s>> \notin Open({"out", "unconfirmed"})
  BY <1>1, <1>3 DEF Open
<1>11. InFlightExact'
  <2>1. IsFiniteSet(Open({"out", "unconfirmed"}))
    BY PairsFinite DEF Open
  <2>2. Cardinality(Open({"out", "unconfirmed"})') = Cardinality(Open({"out", "unconfirmed"})) + 1
    BY <1>10, <2>1, FS_AddElement
  <2> QED BY <1>t, <1>2, <2>2 DEF InFlightExact
<1>12. Pairs(Runtimes)' = Pairs(Runtimes) \cup {<<r, s>>} /\ <<r, s>> \notin Pairs(Runtimes)
  BY <1>1, <1>5 DEF Pairs
<1>13. NoneUnconfirmed => NoneUnconfirmed'
  BY <1>3 DEF NoneUnconfirmed
<1> QED BY <1>0, <1>5, <1>8, <1>9, <1>11, <1>12, <1>13 DEF RuntimeInv

\* A submission the backend refuses spends its number and nothing else.
LEMMA SubmitFailsKeeps ==
  ASSUME RuntimeInv, NEW r \in Runtimes, SubmitFails(r)
  PROVE  RuntimeInv' /\ (NoneUnconfirmed => NoneUnconfirmed')
<1>t. RuntimeTypeOK /\ FateOK /\ OneHolder /\ InFlightExact
  BY DEF RuntimeInv
<1>0. PICK s \in Sequences : s = nextSequence[r]
  BY <1>t, RuntimeAssumption DEF SubmitFails, CanSubmit, RuntimeTypeOK, Sequences
<1>1. fate[r][s] = "unused" /\ s \notin Outstanding(r)
  <2>1. s >= nextSequence[r]
    BY <1>0 DEF Sequences
  <2> QED BY <1>t, <2>1 DEF FateOK
<1>2. /\ UNCHANGED <<backend, queued, parked, inFlight>>
      /\ nextSequence' = [nextSequence EXCEPT ![r] = s + 1]
      /\ fate' = [fate EXCEPT ![r][s] = "refused"]
  BY <1>0 DEF SubmitFails
<1>3. \A q \in Runtimes, t \in Sequences :
         fate'[q][t] = IF q = r /\ t = s THEN "refused" ELSE fate[q][t]
  BY <1>t, <1>2 DEF RuntimeTypeOK
<1>4. fate' \in [Runtimes -> [Sequences -> Outcomes]]
  BY <1>t, <1>2 DEF RuntimeTypeOK, Outcomes
<1>5. \A q \in Runtimes : Outstanding(q)' = Outstanding(q)
  BY <1>2 DEF Outstanding
<1>6. nextSequence' \in [Runtimes -> 0 .. MaxSequence]
  <2>1. s + 1 \in 0 .. MaxSequence
    BY RuntimeAssumption DEF Sequences
  <2> QED BY <1>t, <1>2, <2>1 DEF RuntimeTypeOK
<1>7. RuntimeTypeOK' /\ OneHolder'
  BY <1>t, <1>2, <1>4, <1>5, <1>6 DEF RuntimeTypeOK, Outcomes, MaxInFlight, OneHolder, Async
<1>8. FateOK'
  <2>1. ASSUME NEW q \in Runtimes, NEW t \in Sequences
        PROVE  /\ fate'[q][t] = "out" <=> t \in Outstanding(q)'
               /\ t >= nextSequence'[q] => fate'[q][t] = "unused"
    <3>1. fate'[q][t] = "out" <=> t \in Outstanding(q)'
      BY <1>t, <1>1, <1>3, <1>5 DEF FateOK
    <3>2. ASSUME t >= nextSequence'[q] PROVE fate'[q][t] = "unused"
      <4>1. CASE q = r
        <5>1. nextSequence'[q] = s + 1 /\ s \in Nat /\ t \in Nat
          BY <1>t, <1>2, <4>1 DEF RuntimeTypeOK, Sequences
        <5>2. t >= nextSequence[q] /\ t # s
          BY <1>0, <3>2, <4>1, <5>1
        <5> QED BY <1>t, <1>3, <5>2 DEF FateOK
      <4>2. CASE q # r
        BY <1>t, <1>2, <1>3, <3>2, <4>2 DEF FateOK, RuntimeTypeOK
      <4> QED BY <4>1, <4>2
    <3> QED BY <3>1, <3>2
  <2> QED BY <2>1 DEF FateOK
<1>9. InFlightExact'
  <2>1. Open({"out", "unconfirmed"})' = Open({"out", "unconfirmed"})
    BY <1>1, <1>3 DEF Open
  <2> QED BY <1>t, <1>2, <2>1 DEF InFlightExact
<1>10. NoneUnconfirmed => NoneUnconfirmed'
  BY <1>3 DEF NoneUnconfirmed
<1> QED BY <1>7, <1>8, <1>9, <1>10 DEF RuntimeInv

\* A submission that comes back, with outputs or with an error, is counted off once.
LEMMA CompleteKeeps ==
  ASSUME RuntimeInv, NEW r \in Runtimes, NEW s \in Sequences, NEW outcome \in {"ready", "error"},
         Complete(r, s, outcome)
  PROVE  /\ RuntimeInv' /\ (NoneUnconfirmed => NoneUnconfirmed')
         /\ Pairs(Runtimes)' = Pairs(Runtimes) \ {<<r, s>>} /\ <<r, s>> \in Pairs(Runtimes)
<1>t. RuntimeTypeOK /\ FateOK /\ OneHolder /\ InFlightExact
  BY DEF RuntimeInv
<1>1. s \in Outstanding(r) /\ fate[r][s] = "out"
  BY <1>t DEF Complete, FateOK
<1>2. /\ backend' = backend /\ nextSequence' = nextSequence /\ inFlight' = Less(inFlight, 1)
      /\ queued' = [queued EXCEPT ![r] = queued[r] \ {s}]
      /\ parked' = [parked EXCEPT ![r] = parked[r] \ {s}]
      /\ fate' = [fate EXCEPT ![r][s] = outcome]
  BY DEF Complete
<1>3. \A q \in Runtimes, t \in Sequences :
         fate'[q][t] = IF q = r /\ t = s THEN outcome ELSE fate[q][t]
  BY <1>t, <1>2 DEF RuntimeTypeOK
<1>4. fate' \in [Runtimes -> [Sequences -> Outcomes]]
  BY <1>t, <1>2 DEF RuntimeTypeOK, Outcomes
<1>5. /\ queued' \in [Runtimes -> SUBSET Sequences] /\ parked' \in [Runtimes -> SUBSET Sequences]
      /\ \A q \in Runtimes : Outstanding(q)' = IF q = r THEN Outstanding(q) \ {s} ELSE Outstanding(q)
      /\ OneHolder'
  BY <1>t, <1>2 DEF RuntimeTypeOK, Outstanding, OneHolder, Async
<1>6. ASSUME NEW q \in Runtimes PROVE Cardinality(Outstanding(q)') <= MaxInFlight
  <2>1. IsFiniteSet(Outstanding(q)) /\ Outstanding(q)' \subseteq Outstanding(q)
    BY <1>t, <1>5, OneOfMany
  <2>2. Cardinality(Outstanding(q)') <= Cardinality(Outstanding(q)) /\ IsFiniteSet(Outstanding(q)')
    BY <2>1, FS_Subset
  <2>3. /\ Cardinality(Outstanding(q)') \in Nat /\ Cardinality(Outstanding(q)) \in Nat
        /\ MaxInFlight \in Nat /\ Cardinality(Outstanding(q)) <= MaxInFlight
    BY <1>t, <2>1, <2>2, FS_CardinalityType, RuntimeAssumption DEF RuntimeTypeOK, MaxInFlight
  <2> QED BY <2>2, <2>3
<1>7. FateOK'
  <2>1. ASSUME NEW q \in Runtimes, NEW t \in Sequences
        PROVE  /\ fate'[q][t] = "out" <=> t \in Outstanding(q)'
               /\ t >= nextSequence'[q] => fate'[q][t] = "unused"
    <3>1. fate'[q][t] = "out" <=> t \in Outstanding(q)'
      BY <1>t, <1>3, <1>5 DEF FateOK
    <3>2. t >= nextSequence'[q] => fate'[q][t] = "unused"
      BY <1>t, <1>1, <1>2, <1>3 DEF FateOK
    <3> QED BY <3>1, <3>2
  <2> QED BY <2>1 DEF FateOK
<1>8. /\ Open({"out", "unconfirmed"})' = Open({"out", "unconfirmed"}) \ {<<r, s>>}
      /\ <<r, s>> \in Open({"out", "unconfirmed"})
  BY <1>1, <1>3 DEF Open
<1>9. InFlightExact' /\ inFlight' \in Nat
  <2>1. IsFiniteSet(Open({"out", "unconfirmed"}))
    BY PairsFinite DEF Open
  <2>2. Cardinality(Open({"out", "unconfirmed"})') = Cardinality(Open({"out", "unconfirmed"})) - 1
    BY <1>8, <2>1, FS_RemoveElement
  <2>3. inFlight \in Nat /\ inFlight = Cardinality(Open({"out", "unconfirmed"})) /\ inFlight # 0
    BY <1>t, <1>8, <2>1, FS_EmptySet DEF RuntimeTypeOK, InFlightExact
  <2>4. inFlight' = inFlight - 1 /\ inFlight' \in Nat
    BY <1>2, <2>3 DEF Less
  <2> QED BY <2>2, <2>3, <2>4 DEF InFlightExact
<1>10. RuntimeTypeOK'
  BY <1>t, <1>2, <1>4, <1>5, <1>6, <1>9 DEF RuntimeTypeOK, Outcomes, MaxInFlight
<1>11. Pairs(Runtimes)' = Pairs(Runtimes) \ {<<r, s>>} /\ <<r, s>> \in Pairs(Runtimes)
  BY <1>1, <1>5 DEF Pairs
<1>12. NoneUnconfirmed => NoneUnconfirmed'
  BY <1>3 DEF NoneUnconfirmed
<1> QED BY <1>5, <1>7, <1>9, <1>10, <1>11, <1>12 DEF RuntimeInv

\* The way out: nothing stays in flight, and the counter keeps what the backend
\* could not confirm.
LEMMA CancelKeeps ==
  ASSUME RuntimeInv, NoneUnconfirmed, NEW refused \in Refusals(Runtimes),
         CancelAll(Runtimes, refused)
  PROVE  /\ RuntimeInv' /\ Pairs(Runtimes)' = {}
         /\ inFlight' = Cardinality(Open({"unconfirmed"})')
<1>t. RuntimeTypeOK /\ FateOK /\ OneHolder /\ InFlightExact
  BY DEF RuntimeInv
<1> DEFINE P == Pairs(Runtimes)
<1>1. refused \in SUBSET P /\ P \in SUBSET (Runtimes \X Sequences)
  BY DEF Refusals, Pairs
<1>2. /\ backend' = backend /\ nextSequence' = nextSequence
      /\ queued' = [r \in Runtimes |-> {}] /\ parked' = [r \in Runtimes |-> {}]
      /\ inFlight' = Less(inFlight, Cardinality(P \ refused))
      /\ fate' = [r \in Runtimes |-> [s \in Sequences |->
                  IF <<r, s>> \in refused THEN "unconfirmed"
                  ELSE IF <<r, s>> \in P THEN "cancelled" ELSE fate[r][s]]]
  BY DEF CancelAll
<1>3. \A r \in Runtimes, s \in Sequences :
         fate'[r][s] = IF <<r, s>> \in refused THEN "unconfirmed"
                       ELSE IF <<r, s>> \in P THEN "cancelled" ELSE fate[r][s]
  BY <1>2
<1>4. \A r \in Runtimes, s \in Sequences : <<r, s>> \in P <=> fate[r][s] = "out"
  BY <1>t DEF FateOK, Pairs
<1>5. \A r \in Runtimes : Outstanding(r)' = {}
  BY <1>2 DEF Outstanding
<1>6. Pairs(Runtimes)' = {}
  BY <1>5 DEF Pairs
<1> HIDE DEF P
<1>7. Open({"out", "unconfirmed"})' = refused /\ Open({"unconfirmed"})' = refused
  BY <1>1, <1>3, <1>4 DEF Open, NoneUnconfirmed
<1>8. inFlight' = Cardinality(refused) /\ inFlight' \in Nat
  <2>1. inFlight = Cardinality(P)
    BY CounterIsPairs DEF P
  <2>2. IsFiniteSet(P) /\ IsFiniteSet(refused) /\ Cardinality(P) \in Nat /\ Cardinality(refused) \in Nat
    BY <1>1, PairsFinite
  <2>3. P \cap refused = refused
    BY <1>1
  <2>4. Cardinality(P \ refused) = Cardinality(P) - Cardinality(refused)
    BY <2>2, <2>3, FS_Difference
  <2>5. IsFiniteSet(P \ refused) /\ Cardinality(P \ refused) \in Nat
    BY <1>1, PairsFinite
  <2> QED BY <1>2, <2>1, <2>2, <2>4, <2>5 DEF Less
<1>9. RuntimeTypeOK'
  <2>1. fate' \in [Runtimes -> [Sequences -> Outcomes]]
    <3>1. \A r \in Runtimes, s \in Sequences : fate[r][s] \in Outcomes
      BY <1>t DEF RuntimeTypeOK, Outcomes
    <3> QED BY <1>2, <3>1 DEF Outcomes
  <2>2. \A r \in Runtimes : Cardinality(Outstanding(r)') <= MaxInFlight
    <3>1. MaxInFlight \in Nat /\ Cardinality({}) = 0
      BY <1>t, FS_EmptySet, RuntimeAssumption DEF RuntimeTypeOK, MaxInFlight
    <3>2. 0 <= MaxInFlight
      BY <3>1
    <3> QED BY <1>5, <3>1, <3>2
  <2> QED BY <1>t, <1>2, <1>8, <2>1, <2>2 DEF RuntimeTypeOK, Outcomes, MaxInFlight
<1>10. FateOK'
  <2>1. ASSUME NEW r \in Runtimes, NEW s \in Sequences
        PROVE  /\ fate'[r][s] = "out" <=> s \in Outstanding(r)'
               /\ s >= nextSequence'[r] => fate'[r][s] = "unused"
    <3>1. fate'[r][s] # "out"
      <4>1. CASE <<r, s>> \in refused
        BY <1>3, <4>1
      <4>2. CASE <<r, s>> \notin refused /\ <<r, s>> \in P
        BY <1>3, <4>2
      <4>3. CASE <<r, s>> \notin refused /\ <<r, s>> \notin P
        BY <1>3, <1>4, <4>3
      <4> QED BY <4>1, <4>2, <4>3
    <3>2. s >= nextSequence[r] => fate[r][s] = "unused" /\ <<r, s>> \notin P
      BY <1>t, <1>4 DEF FateOK
    <3> QED BY <1>1, <1>2, <1>3, <1>5, <3>1, <3>2
  <2> QED BY <2>1 DEF FateOK
<1>11. OneHolder'
  BY <1>2 DEF OneHolder
<1>12. InFlightExact'
  BY <1>7, <1>8 DEF InFlightExact
<1> QED BY <1>6, <1>7, <1>8, <1>9, <1>10, <1>11, <1>12 DEF RuntimeInv

-----------------------------------------------------------------------------
(* The element *)

ElementTypes ==
    /\ pc \in {"loop", "sending", "failing", "done", "failed", "stopped"}
    /\ received \in 0 .. Packets /\ eos \in BOOLEAN
    /\ pending \subseteq Runtimes \X Sequences \X (1 .. Packets)
    /\ holding \in 0 .. Packets
    /\ emitted \in Seq(1 .. Packets)
    /\ ended \in BOOLEAN /\ stop \in BOOLEAN

Books == RuntimeInv /\ ElementTypes /\ ElementInv

\* Every way out leaves the books closed.
LEMMA ExitCloses ==
  ASSUME Books, ~Exited, NEW how \in {"done", "failed", "stopped"}, Exit(how),
         pending' = pending
  PROVE  RuntimeInv' /\ ElementInv'
<1>1. PICK refused \in Refusals(Runtimes) : CancelAll(Runtimes, refused)
  BY DEF Exit
<1>2. /\ RuntimeInv' /\ Pairs(Runtimes)' = {} /\ inFlight' = Cardinality(Open({"unconfirmed"})')
  BY <1>1, CancelKeeps DEF Books, ElementInv
<1>3. pc' = how
  BY DEF Exit
<1>4. PendingOK'
  BY <1>3 DEF Books, ElementInv, PendingOK
<1>5. Exited' /\ ExitReleases'
  BY <1>2, <1>3 DEF Exited, ExitReleases
<1> QED BY <1>2, <1>4, <1>5 DEF ElementInv

\* The books stay closed or open as they are while nothing is submitted or polled.
LEMMA QuietKeeps ==
  ASSUME Books, ~Exited, UNCHANGED runtimeVars, pending' = pending,
         pc \in {"loop", "sending"} \/ pc' \notin {"loop", "sending"},
         pc' \in {"loop", "sending", "failing"}
  PROVE  RuntimeInv' /\ ElementInv'
<1>1. RuntimeInv' /\ Pairs(Runtimes)' = Pairs(Runtimes) /\ (NoneUnconfirmed => NoneUnconfirmed')
  BY DEF Books, RuntimeInv, RuntimeTypeOK, FateOK, OneHolder, InFlightExact, Open, Outstanding,
     Pairs, MaxInFlight, Async, NoneUnconfirmed, runtimeVars
<1>2. PendingOK'
  BY <1>1 DEF Books, ElementInv, PendingOK
<1>3. ~Exited'
  BY DEF Exited
<1> QED BY <1>1, <1>2, <1>3 DEF Books, ElementInv, ExitReleases

\* Every step keeps the counter, the runtimes and pending together.
LEMMA BooksKept ==
  ASSUME Books, [Next]_vars
  PROVE  RuntimeInv' /\ ElementInv'
<1>t. RuntimeInv /\ ElementTypes /\ ElementInv /\ PendingOK
  BY DEF Books, ElementInv
<1>n. ~Exited => NoneUnconfirmed
  BY <1>t DEF ElementInv
<1>1. ASSUME NEW r \in Runtimes, NEW s \in Sequences, PollResult(r, s)
      PROVE  RuntimeInv' /\ ElementInv'
  <2>1. ~Exited /\ ~Exited' /\ pc = "loop"
    BY <1>1 DEF PollResult, Exited
  <2>2. /\ RuntimeInv' /\ NoneUnconfirmed' /\ Pairs(Runtimes)' = Pairs(Runtimes) \ {<<r, s>>}
    BY <1>t, <1>n, <1>1, <2>1, CompleteKeeps DEF PollResult, PollReady
  <2>3. PICK e \in pending : e[1] = r /\ e[2] = s /\ pending' = pending \ {e}
    BY <1>1 DEF PollResult
  <2>4. {<<f[1], f[2]>> : f \in pending'} = Pairs(Runtimes)'
    <3>1. {<<f[1], f[2]>> : f \in pending} = Pairs(Runtimes)
      BY <1>t, <2>1 DEF PendingOK
    <3>2. ASSUME NEW f \in pending' PROVE f \in pending /\ <<f[1], f[2]>> # <<r, s>>
      BY <1>t, <2>3, <3>2 DEF PendingOK
    <3>3. ASSUME NEW f \in pending, <<f[1], f[2]>> # <<r, s>> PROVE f \in pending'
      BY <2>3, <3>3
    <3>4. \A x : x \in {<<f[1], f[2]>> : f \in pending'}
                   <=> x \in {<<f[1], f[2]>> : f \in pending} /\ x # <<r, s>>
      BY <3>2, <3>3
    <3> QED BY <2>2, <3>1, <3>4
  <2>5. PendingOK'
    BY <1>t, <2>3, <2>4 DEF PendingOK
  <2> QED BY <2>1, <2>2, <2>5 DEF ElementInv, ExitReleases
<1>2. ASSUME NEW r \in Runtimes, NEW s \in Sequences, PollFailed(r, s)
      PROVE  RuntimeInv' /\ ElementInv'
  <2>1. ~Exited /\ ~Exited' /\ pc' = "failing" /\ pending' = pending
    BY <1>2 DEF PollFailed, Exited
  <2>2. RuntimeInv' /\ NoneUnconfirmed'
    BY <1>t, <1>n, <1>2, <2>1, CompleteKeeps DEF PollFailed, PollError
  <2>3. PendingOK'
    BY <1>t, <2>1 DEF PendingOK
  <2> QED BY <2>1, <2>2, <2>3 DEF ElementInv, ExitReleases
<1>3. ASSUME NEW r \in Runtimes, Infer(r) PROVE RuntimeInv' /\ ElementInv'
  <2>1. ~Exited /\ pc' = pc /\ pc = "loop" /\ NothingReady
    BY <1>3 DEF Infer, MayReceive, Exited
  <2> DEFINE new == <<r, nextSequence[r], received'>>
  <2>2. /\ RuntimeInv' /\ NoneUnconfirmed'
        /\ <<r, nextSequence[r]>> \notin Pairs(Runtimes)
        /\ Pairs(Runtimes)' = Pairs(Runtimes) \cup {<<r, nextSequence[r]>>}
    BY <1>t, <1>n, <1>3, <2>1, SubmitKeeps DEF Infer
  <2>3. pending' = pending \cup {new} /\ new[1] = r /\ new[2] = nextSequence[r]
    BY <1>3 DEF Infer
  <2> HIDE DEF new
  <2>4. {<<f[1], f[2]>> : f \in pending} = Pairs(Runtimes)
    BY <1>t, <2>1 DEF PendingOK
  <2>5. {<<f[1], f[2]>> : f \in pending'} = Pairs(Runtimes)'
    <3>1. \A x : x \in {<<f[1], f[2]>> : f \in pending'}
                   <=> x \in {<<f[1], f[2]>> : f \in pending} \/ x = <<r, nextSequence[r]>>
      BY <2>3
    <3> QED BY <2>2, <2>4, <3>1
  <2>6. ASSUME NEW e \in pending', NEW f \in pending', e[1] = f[1], e[2] = f[2] PROVE e = f
    <3>1. \A g \in pending : <<g[1], g[2]>> # <<r, nextSequence[r]>>
      BY <2>2, <2>4
    <3>2. ASSUME NEW g \in pending PROVE g[1] # new[1] \/ g[2] # new[2]
      BY <2>3, <3>1
    <3>3. CASE e \in pending /\ f \in pending
      BY <1>t, <2>6, <3>3 DEF PendingOK
    <3> QED BY <2>3, <2>6, <3>2, <3>3
  <2>7. PendingOK'
    BY <2>5, <2>6 DEF PendingOK
  <2> QED BY <2>1, <2>2, <2>7 DEF ElementInv, ExitReleases, Exited
<1>4. ASSUME NEW r \in Runtimes, InferRefused(r) PROVE RuntimeInv' /\ ElementInv'
  <2>1. ~Exited /\ ~Exited' /\ pc' = "failing" /\ pending' = pending
    BY <1>4 DEF InferRefused, MayReceive, Exited
  <2>2. CASE UNCHANGED runtimeVars
    BY <2>1, <2>2, QuietKeeps
  <2>3. CASE SubmitFails(r)
    <3>1. RuntimeInv' /\ NoneUnconfirmed'
      BY <1>t, <1>n, <2>1, <2>3, SubmitFailsKeeps
    <3>2. PendingOK'
      BY <1>t, <2>1 DEF PendingOK
    <3> QED BY <2>1, <3>1, <3>2 DEF ElementInv, ExitReleases
  <2> QED BY <1>4, <2>2, <2>3 DEF InferRefused
<1>5. ASSUME SendOutputs \/ RecvEos PROVE RuntimeInv' /\ ElementInv'
  BY <1>5, QuietKeeps DEF SendOutputs, RecvEos, MayReceive, Exited
<1>6. CASE Unwind
  BY <1>6, ExitCloses DEF Unwind, Exited
<1>7. CASE SendCancelled
  BY <1>7, ExitCloses DEF SendCancelled, Exited
<1>8. CASE Finish
  BY <1>8, ExitCloses DEF Finish, Exited
<1>9. CASE Abort
  BY <1>9, ExitCloses DEF Abort, Exited
<1>10. CASE RequestStop
  <2>1. ~Exited /\ UNCHANGED runtimeVars /\ pending' = pending /\ pc' = pc
    BY <1>10 DEF RequestStop
  <2> QED BY <1>t, <2>1, QuietKeeps DEF Exited, ElementTypes
<1>11. CASE UNCHANGED vars
  <2>1. UNCHANGED <<runtimeVars, pc, pending>>
    BY <1>11 DEF vars, runtimeVars
  <2>2. RuntimeInv'
    BY <1>t, <2>1 DEF RuntimeInv, RuntimeTypeOK, FateOK, OneHolder, InFlightExact, Open,
       Outstanding, MaxInFlight, Async, runtimeVars
  <2>3. ElementInv'
    BY <1>t, <2>1 DEF ElementInv, PendingOK, Exited, NoneUnconfirmed, ExitReleases, Pairs,
       Outstanding, Open, runtimeVars
  <2> QED BY <2>2, <2>3
<1> QED BY <1>1, <1>2, <1>3, <1>4, <1>5, <1>6, <1>7, <1>8, <1>9, <1>10, <1>11 DEF Next, Round

-----------------------------------------------------------------------------
(* The packets *)

\* Sending one more packet.
LEMMA SentOneMore ==
  ASSUME NEW S, NEW q \in Seq(S), NEW x \in S
  PROVE  /\ ToSet(Append(q, x)) = ToSet(q) \cup {x}
         /\ IsInjective(q) /\ x \notin ToSet(q) => IsInjective(Append(q, x))
<1> DEFINE t == Append(q, x)
<1>1. /\ Len(q) \in Nat /\ DOMAIN q = 1 .. Len(q) /\ DOMAIN t = 1 .. Len(q) + 1
      /\ \A k \in 1 .. Len(q) : t[k] = q[k]
      /\ t[Len(q) + 1] = x
  BY AppendProperties, LenProperties
<1>2. \A k \in 1 .. Len(q) + 1 : k \in 1 .. Len(q) \/ k = Len(q) + 1
  BY <1>1
<1>3. 1 .. Len(q) \subseteq 1 .. Len(q) + 1 /\ Len(q) + 1 \in 1 .. Len(q) + 1
  BY <1>1
<1> HIDE DEF t
<1>4. ToSet(t) = ToSet(q) \cup {x}
  BY <1>1, <1>2, <1>3 DEF ToSet
<1>5. ASSUME IsInjective(q), x \notin ToSet(q), NEW i \in DOMAIN t, NEW j \in DOMAIN t, t[i] = t[j]
      PROVE  i = j
  <2>1. \A k \in 1 .. Len(q) : q[k] # x
    BY <1>1, <1>5 DEF ToSet
  <2> QED BY <1>1, <1>2, <1>5, <2>1 DEF IsInjective
<1>6. IsInjective(q) /\ x \notin ToSet(q) => IsInjective(t)
  BY <1>5 DEF IsInjective
<1> QED BY <1>4, <1>6 DEF t

\* The steps that end the element or leave the packets alone.
LEMMA PacketsStay ==
  ASSUME PacketsOK, ~Exited, UNCHANGED <<pending, holding, emitted, received, ended>>,
         pc' = pc \/ pc' \in {"failing", "failed", "stopped"}
  PROVE  PacketsOK'
<1>1. ~ended
  BY DEF PacketsOK, Exited
<1> QED BY <1>1 DEF PacketsOK

\* Every step keeps each packet in one place and the types of the element.
LEMMA PacketsKept ==
  ASSUME Books, PacketsOK, [Next]_vars
  PROVE  PacketsOK' /\ ElementTypes'
<1>t. RuntimeInv /\ ElementTypes /\ ElementInv
  BY DEF Books
<1>p. Packets \in Nat
  BY ElementAssumption
<1>1. ASSUME NEW r \in Runtimes, NEW s \in Sequences, PollResult(r, s)
      PROVE  PacketsOK' /\ ElementTypes'
  <2>1. /\ pc = "loop" /\ pc' = "sending" /\ UNCHANGED <<received, eos, emitted, ended, stop>>
        /\ holding = 0 /\ ~ended
    BY <1>1 DEF PollResult, PacketsOK
  <2>2. PICK e \in pending : pending' = pending \ {e} /\ holding' = e[3]
    BY <1>1 DEF PollResult
  <2>3. e[3] \in 1 .. Packets /\ e[3] \in Numbers(pending)
    BY <1>t DEF ElementTypes, Numbers
  <2>4. Numbers(pending') = Numbers(pending) \ {e[3]}
    <3>1. \A f \in pending : f # e => f[3] # e[3]
      BY DEF PacketsOK
    <3> QED BY <2>2, <3>1 DEF Numbers
  <2>5. \A f, g \in pending' : f[3] = g[3] => f = g
    BY <2>2 DEF PacketsOK
  <2>6. e[3] # 0 /\ 0 \notin 1 .. received /\ e[3] \in 1 .. received /\ e[3] \in 0 .. received
    BY <1>t, <2>3 DEF PacketsOK, ElementTypes
  <2>7. PacketsOK'
    BY <2>1, <2>2, <2>3, <2>4, <2>5, <2>6 DEF PacketsOK
  <2>8. e[3] \in 0 .. Packets
    BY <1>p, <2>3
  <2>9. ElementTypes'
    BY <1>t, <2>1, <2>2, <2>8 DEF ElementTypes
  <2> QED BY <2>7, <2>9
<1>2. ASSUME NEW r \in Runtimes, NEW s \in Sequences, PollFailed(r, s)
      PROVE  PacketsOK' /\ ElementTypes'
  BY <1>t, <1>2, PacketsStay DEF PollFailed, Exited, ElementTypes
<1>3. ASSUME NEW r \in Runtimes, Infer(r) PROVE PacketsOK' /\ ElementTypes'
  <2>1. /\ pc = "loop" /\ UNCHANGED <<pc, eos, holding, emitted, ended, stop>>
        /\ received' = received + 1 /\ received < Packets /\ NothingReady
    BY <1>3 DEF Infer, MayReceive
  <2> DEFINE new == <<r, nextSequence[r], received + 1>>
  <2>n. pending' = pending \cup {new} /\ new[3] = received + 1
    BY <1>3 DEF Infer
  <2>2. received \in Nat /\ holding = 0 /\ ~ended
    BY <1>t, <2>1 DEF ElementTypes, PacketsOK
  <2>3. nextSequence[r] \in Sequences
    BY <1>t, <1>3, <2>1, SubmitKeeps DEF Infer
  <2>t. new \in Runtimes \X Sequences \X (1 .. Packets)
    BY <1>p, <2>1, <2>2, <2>3
  <2> HIDE DEF new
  <2>4. Numbers(pending') = Numbers(pending) \cup {received + 1}
    BY <2>n DEF Numbers
  <2>5. 1 .. received + 1 = (1 .. received) \cup {received + 1} /\ received + 1 \notin 1 .. received
    BY <2>2
  <2>6. received + 1 \notin Numbers(pending) /\ received + 1 \notin ToSet(emitted)
    BY <2>5 DEF PacketsOK
  <2>7. ASSUME NEW f \in pending', NEW g \in pending', f[3] = g[3] PROVE f = g
    <3>1. ASSUME NEW e \in pending PROVE e[3] # received + 1
      BY <2>6 DEF Numbers
    <3> QED BY <2>n, <2>7, <3>1 DEF PacketsOK
  <2>8. 0 \in 0 .. received + 1 /\ received + 1 # 0
    BY <2>2
  <2>9. PacketsOK'
    BY <2>1, <2>2, <2>4, <2>5, <2>6, <2>7, <2>8 DEF PacketsOK
  <2>10. received + 1 \in 0 .. Packets
    BY <1>p, <2>1, <2>2
  <2>11. ElementTypes'
    BY <1>t, <2>1, <2>n, <2>t, <2>10 DEF ElementTypes
  <2> QED BY <2>9, <2>11
<1>4. ASSUME NEW r \in Runtimes, InferRefused(r) PROVE PacketsOK' /\ ElementTypes'
  <2>1. /\ pc = "loop" /\ pc' = "failing" /\ UNCHANGED <<eos, pending, holding, emitted, ended, stop>>
        /\ received' = received + 1 /\ received < Packets
    BY <1>4 DEF InferRefused, MayReceive
  <2>2. received \in Nat /\ holding = 0 /\ ~ended
    BY <1>t, <2>1 DEF ElementTypes, PacketsOK
  <2>3. 1 .. received \subseteq 1 .. received + 1 /\ 0 \in 0 .. received + 1
    BY <2>2
  <2>4. PacketsOK'
    BY <2>1, <2>2, <2>3 DEF PacketsOK
  <2>5. received + 1 \in 0 .. Packets
    BY <1>p, <2>1, <2>2
  <2>6. ElementTypes'
    BY <1>t, <2>1, <2>5 DEF ElementTypes
  <2> QED BY <2>4, <2>6
<1>5. CASE SendOutputs
  <2>1. /\ pc = "sending" /\ pc' = "loop" /\ holding' = 0 /\ emitted' = Append(emitted, holding)
        /\ UNCHANGED <<received, eos, pending, ended, stop>>
    BY <1>5 DEF SendOutputs
  <2>2. holding \in 1 .. Packets /\ holding \in 1 .. received /\ ~ended /\ received \in Nat
    BY <1>t, <2>1 DEF ElementTypes, PacketsOK
  <2>3. emitted \in Seq(1 .. Packets)
    BY <1>t DEF ElementTypes
  <2>m. /\ ToSet(Append(emitted, holding)) = ToSet(emitted) \cup {holding}
        /\ IsInjective(emitted) /\ holding \notin ToSet(emitted)
             => IsInjective(Append(emitted, holding))
    <3> DEFINE S == 1 .. Packets
    <3>1. emitted \in Seq(S) /\ holding \in S
      BY <2>2, <2>3
    <3> HIDE DEF S
    <3> QED BY <3>1, SentOneMore, Zenon
  <2>4. ToSet(emitted') = ToSet(emitted) \cup {holding}
    BY <2>1, <2>m
  <2>5. IsInjective(emitted')
    BY <2>1, <2>m DEF PacketsOK
  <2>6. 0 \notin 1 .. received /\ 0 \in 0 .. received
    BY <2>2
  <2>7. PacketsOK'
    BY <2>1, <2>2, <2>4, <2>5, <2>6 DEF PacketsOK
  <2>8. emitted' \in Seq(1 .. Packets)
    BY <2>1, <2>2, <2>3, AppendProperties
  <2>9. 0 \in 0 .. Packets
    BY <1>p
  <2>10. ElementTypes'
    BY <1>t, <2>1, <2>8, <2>9 DEF ElementTypes
  <2> QED BY <2>7, <2>10
<1>6. CASE Unwind
  BY <1>t, <1>6, PacketsStay DEF Unwind, Exit, Exited, ElementTypes
<1>7. CASE SendCancelled
  BY <1>t, <1>7, PacketsStay DEF SendCancelled, Exit, Exited, ElementTypes
<1>8. CASE Finish
  <2>1. /\ pc = "loop" /\ pending = {}
        /\ UNCHANGED <<received, eos, pending, holding, emitted, stop>>
        /\ (pc' = "done" /\ ended' = TRUE) \/ (pc' = "stopped" /\ ended' = ended)
    BY <1>8 DEF Finish, MayEnd, Exit
  <2>2. ToSet(emitted) = 1 .. received
    <3>1. holding = 0 /\ Numbers(pending) = {} /\ 0 \notin 1 .. received
      BY <1>t, <2>1 DEF PacketsOK, Numbers, ElementTypes
    <3> QED BY <2>1, <3>1 DEF PacketsOK
  <2>3. PacketsOK'
    BY <2>1, <2>2 DEF PacketsOK
  <2> QED BY <1>t, <2>1, <2>3 DEF ElementTypes
<1>9. CASE Abort
  BY <1>t, <1>9, PacketsStay DEF Abort, Exit, Exited, ElementTypes
<1>10. CASE RecvEos
  BY <1>t, <1>10, PacketsStay DEF RecvEos, MayReceive, Exited, ElementTypes
<1>11. CASE RequestStop
  BY <1>t, <1>11, PacketsStay DEF RequestStop, ElementTypes
<1>12. CASE UNCHANGED vars
  BY <1>t, <1>12 DEF vars, PacketsOK, ElementTypes
<1> QED BY <1>1, <1>2, <1>3, <1>4, <1>5, <1>6, <1>7, <1>8, <1>9, <1>10, <1>11, <1>12 DEF Next, Round

-----------------------------------------------------------------------------
(* The invariant and what follows from it *)

\* Nothing is in flight at the start.
LEMMA Initially == Init => IInv
<1> SUFFICES ASSUME Init PROVE Books /\ PacketsOK
  BY DEF IInv, Books, TypeOK, RuntimeInv, ElementTypes
<1> USE DEF Init, RuntimeInit
<1>1. \A r \in Runtimes : Outstanding(r) = {}
  BY DEF Outstanding
<1>2. RuntimeTypeOK
  <2>1. MaxInFlight \in Nat /\ Cardinality({}) = 0
    BY FS_EmptySet, RuntimeAssumption DEF MaxInFlight
  <2>2. \A r \in Runtimes : Cardinality(Outstanding(r)) <= MaxInFlight
    <3>1. 0 <= MaxInFlight
      BY <2>1
    <3> QED BY <1>1, <2>1, <3>1
  <2> QED BY <2>2, RuntimeAssumption DEF RuntimeTypeOK
<1>3. FateOK /\ OneHolder /\ NoneUnconfirmed /\ Pairs(Runtimes) = {}
  BY <1>1 DEF FateOK, OneHolder, NoneUnconfirmed, Pairs
<1>4. InFlightExact
  <2>1. Open({"out", "unconfirmed"}) = {}
    BY DEF Open
  <2> QED BY <2>1, FS_EmptySet DEF InFlightExact
<1>5. ElementTypes
  <2>1. emitted \in Seq(1 .. Packets) /\ 0 \in 0 .. Packets
    BY ElementAssumption, EmptySeq
  <2>2. eos \in BOOLEAN /\ ended \in BOOLEAN /\ stop \in BOOLEAN
    BY Zenon
  <2> QED BY <2>1, <2>2 DEF ElementTypes
<1>6. ElementInv
  BY <1>3 DEF ElementInv, PendingOK, Exited, ExitReleases
<1>7. PacketsOK
  BY DEF PacketsOK, ToSet, Numbers, IsInjective
<1> QED BY <1>2, <1>3, <1>4, <1>5, <1>6, <1>7 DEF Books, RuntimeInv

\* The inductive invariant holds of the element.
LEMMA Invariant == Spec => []IInv
<1>1. IInv /\ [Next]_vars => IInv'
  <2> SUFFICES ASSUME Books, PacketsOK, [Next]_vars PROVE Books' /\ PacketsOK'
    BY DEF IInv, Books, TypeOK, RuntimeInv, ElementTypes
  <2> QED BY BooksKept, PacketsKept DEF Books
<1> QED BY <1>1, Initially, PTL DEF Spec

\* As many entries in pending as pairs in flight.
LEMMA OneEntryEach ==
  ASSUME IInv, pc \in {"loop", "sending"}
  PROVE  Cardinality(pending) = Cardinality(Pairs(Runtimes))
<1>1. {<<e[1], e[2]>> : e \in pending} = Pairs(Runtimes)
  BY DEF IInv, ElementInv, PendingOK
<1> DEFINE f == [e \in pending |-> <<e[1], e[2]>>]
<1>2. f \in Bijection(pending, Pairs(Runtimes))
  <2>1. f \in [pending -> Pairs(Runtimes)]
    BY <1>1
  <2>2. ASSUME NEW e \in pending, NEW g \in pending, f[e] = f[g] PROVE e = g
    <3>1. e[1] = g[1] /\ e[2] = g[2]
      BY <2>2
    <3> QED BY <3>1 DEF IInv, ElementInv, PendingOK
  <2>3. \A x \in Pairs(Runtimes) : \E e \in pending : f[e] = x
    BY <1>1
  <2> QED BY <2>1, <2>2, <2>3 DEF Bijection, Injection, Surjection, IsInjective
<1>3. IsFiniteSet(Pairs(Runtimes))
  BY PairsFinite DEF Pairs
<1> QED BY <1>2, <1>3, FS_Bijection, FS_Injection DEF Bijection

\* The shared counter, the runtimes and the table of pending submissions agree at
\* every step, whatever fails: every completion finds its metadata, has_capacity
\* promises no place that submit will refuse, and nothing outlives the element.
THEOREM BooksAgree == Spec => []AccountsMatch
<1>1. IInv => AccountsMatch
  <2> SUFFICES ASSUME IInv PROVE AccountsMatch
    OBVIOUS
  <2>1. RuntimeInv /\ ElementInv
    BY DEF IInv
  <2>2. PendingMatchesInFlight
    BY <2>1, OneEntryEach DEF PendingMatchesInFlight, ElementInv, PendingOK
  <2>3. CapacityIsReal
    <3> SUFFICES ASSUME MayReceive, NEW r \in Runtimes PROVE CurrentInFlight(r) < MaxInFlight
      BY DEF CapacityIsReal
    <3>1. NoneUnconfirmed /\ inFlight < MaxInFlight
      BY <2>1 DEF MayReceive, Exited, ElementInv, HasCapacity
    <3>2. inFlight = Cardinality(Pairs(Runtimes)) /\ inFlight \in Nat /\ MaxInFlight \in Nat
      BY <2>1, <3>1, CounterIsPairs, RuntimeAssumption DEF RuntimeInv, RuntimeTypeOK, MaxInFlight
    <3>3. /\ Cardinality(Outstanding(r)) <= Cardinality(Pairs(Runtimes))
          /\ Cardinality(Outstanding(r)) \in Nat
      BY <2>1, OneOfMany DEF RuntimeInv
    <3>4. CurrentInFlight(r) = Cardinality(Outstanding(r))
      BY <2>1, CountIsOutstanding
    <3> QED BY <3>1, <3>2, <3>3, <3>4
  <2> QED BY <2>1, <2>2, <2>3 DEF IInv, AccountsMatch, RuntimeInv, ElementInv
<1> QED BY <1>1, Invariant, PTL

\* No packet is emitted twice, and when end of stream goes out every packet that
\* came in has gone out, in whatever order the device completed them.
THEOREM EosIsLast == Spec => []EosAfterEveryResult
<1>1. IInv => EosAfterEveryResult
  BY DEF IInv, PacketsOK, EosAfterEveryResult
<1> QED BY <1>1, Invariant, PTL


-----------------------------------------------------------------------------

CallNames == {"init", "run", "reshape", "submit", "poll", "cancel"}
AllKinds == {"rknn", "sophon", "tensorrt", "openvino"}
RknnPlaces == {"core_mask", "count", "attrs", "bind", "zero_copy", "staging", "copy"}
SophonPlaces == {"bmrt", "load", "discover", "alloc_out", "launch"}
TrtPlaces == {"engine", "ctx", "bindings", "outputs", "bind_in", "bind_out", "enqueue"}
OvPlaces == {"run_poll", "compile"}
Places == {"new", "idle", "drop", "dropped", "sync"} \cup AllKinds
          \cup RknnPlaces \cup SophonPlaces \cup TrtPlaces \cup OvPlaces
Sizes == Shapes \cup {None}

\* Types, and which backend and which call can be at a place.
StageOK ==
    /\ stage \in Places \X CallNames
    /\ stage[1] \in RknnPlaces => kind = "rknn"
    /\ stage[1] \in SophonPlaces => kind = "sophon"
    /\ stage[1] \in TrtPlaces => kind = "tensorrt"
    /\ stage[1] \in OvPlaces => kind = "openvino"
    /\ stage[1] = "sync" => kind \in {"sophon", "tensorrt"}
    /\ stage[1] \in AllKinds => stage[1] = kind
    /\ stage[1] \in {"new", "core_mask", "bmrt", "load", "discover", "engine", "ctx", "bindings"}
         => stage[2] = "init"
    /\ stage[1] \in {"count", "attrs"} => stage[2] \in {"init", "reshape"}
    /\ stage[1] \in {"outputs", "compile"} => stage[2] = "reshape"
    /\ stage[1] \in {"bind", "zero_copy", "staging", "copy", "alloc_out", "launch",
                     "bind_in", "bind_out", "enqueue", "sync", "run_poll"} => stage[2] = "run"

SomeInfos == [ins : 0..Ins, outs : 0..Outs, shape : Sizes, out : Sizes]
FieldsOK ==
    /\ kind \in Kinds /\ calls \in 0..MaxCalls
    /\ native \in Sizes /\ arg \in Sizes /\ failed \in BOOLEAN /\ broken \in BOOLEAN
    /\ infos \in SomeInfos
    /\ (stage[1] \notin {"new", "idle", "drop", "dropped"}) => arg \in Shapes

\* Every object has at most one owner, and is there once: in the rows of a set L
\* no two places hold the same object, and the device works with locals.
Row(s, L) == s \in Seq(L) /\ IsInjective(s)
Apart(s, t) == ToSet(s) \cap ToSet(t) = {}
Owned(L, h, m, l, r, d, u) ==
    /\ IsFiniteSet(L)
    /\ Row(h, L) /\ Row(m, L) /\ Row(l, L) /\ Row(r, L) /\ Row(d, L)
    /\ Apart(h, m) /\ Apart(h, l) /\ Apart(h, r) /\ Apart(h, d)
    /\ Apart(m, l) /\ Apart(m, r) /\ Apart(m, d)
    /\ Apart(l, r) /\ Apart(l, d) /\ Apart(r, d)
    /\ u \subseteq ToSet(l)
Mine(h, m, l, r, d) == ToSet(h) \cup ToSet(m) \cup ToSet(l) \cup ToSet(r) \cup ToSet(d)
OwnersOK == mems \in [objs : Seq(live), shape : Sizes] /\ Owned(live, held, mems.objs, local, raw, dying, inUse)

Leaf == {"mem", "outputs", "names", "buffer", "stream"}
Begun == stage[1] = "new" \/ (stage[1] \in AllKinds /\ stage[2] = "init")

\* What the owners hold at which place.
RowsOK ==
    /\ Begun => held = <<>> /\ mems = NoMems /\ local = <<>>
    /\ inUse # {} => stage[1] = "sync"
    /\ raw # <<>> => stage[1] \in {"core_mask", "copy"}
    /\ stage[1] = "core_mask" => Len(raw) = 1 /\ raw[1].type = "context" /\ held = <<>>
    /\ stage[1] = "copy" => Len(raw) = 1 /\ raw[1].type = "outputs"
    /\ local # <<>> => stage[1] \in {"bind", "discover", "sophon", "alloc_out", "launch", "sync",
                                     "engine", "ctx", "bindings", "bind_in", "bind_out", "enqueue"}
    /\ stage[1] \in {"engine", "ctx", "bindings"} => held = <<>> /\ mems = NoMems
    /\ stage[1] = "engine" => Len(local) = 1 /\ local[1].type = "runtime"
    /\ stage[1] = "ctx" => Len(local) = 2 /\ local[1].type = "runtime" /\ local[2].type = "engine"
    /\ stage[1] = "bindings" => /\ Len(local) = 3 /\ local[1].type = "runtime"
                                /\ local[2].type = "engine" /\ local[3].type = "execution"
    /\ stage[1] \notin {"engine", "ctx", "bindings"} => \A i \in DOMAIN local : local[i].type \in Leaf
    /\ stage[1] = "bmrt" => Len(held) = 1 /\ held[1].type = "handle"
    /\ \/ held = <<>>
       \/ Len(held) = 1 /\ held[1].type \in {"context", "handle"}
       \/ Len(held) = 2 /\ held[1].type = "bmrt" /\ held[2].type = "handle"
       \/ Len(held) = 3 /\ held[1].type = "execution" /\ held[2].type = "engine" /\ held[3].type = "runtime"
    /\ \A i \in DOMAIN mems.objs : mems.objs[i].type = "mem"
    /\ mems.objs = <<>> => mems = NoMems
    /\ stage[1] \in {"attrs", "bind"} => mems = NoMems
    /\ stage[1] = "zero_copy" => mems # NoMems
    /\ stage[1] = "bind" => \A i \in DOMAIN local : local[i].type = "mem"

\* What is being released is needed by nothing that stays.
DyingOK ==
    \/ \A i \in DOMAIN dying : dying[i].type \in Leaf
    \/ /\ held = <<>> /\ mems = NoMems /\ local = <<>> /\ raw = <<>>
       /\ \A i, j \in DOMAIN dying : i < j => dying[i].type \notin Needs(dying[j])

OrphansOK ==
    \A o \in Orphans :
        /\ kind = "rknn"
        /\ \/ o.type = "outputs"
           \/ o.type = "context" /\ held = <<>> /\ stage[1] \in {"drop", "dropped"}

InCalls(places) == stage[1] \in places \/ (stage[1] = kind /\ stage[2] # "init")
RknnOK ==
    kind = "rknn" /\ ~broken /\ InCalls({"idle", "bind", "zero_copy", "staging", "copy"}) =>
        infos = Infos(Ins, Outs, native) /\ (mems # NoMems => mems.shape = native)

PoolOK ==
    /\ model \in Sizes
    /\ free \in Seq(Sizes) /\ flight \in Seq([by : Nat, shape : Sizes, state : {"busy", "ended"}])
    /\ Len(free) + Len(flight) <= MaxRequests
    /\ Begun \/ kind # "openvino" => free = <<>> /\ flight = <<>>
    /\ stage[1] = "compile" => free = <<>> /\ flight = <<>> /\ model \in Shapes
    /\ kind = "openvino" /\ ~broken /\ InCalls({"idle", "run_poll"}) =>
         infos.shape = native /\ \A i \in DOMAIN free : free[i] = native
    /\ \A i \in DOMAIN flight : flight[i].shape = infos.shape

\* What a run that succeeds says of its outputs.
RunsOK ==
    /\ stage[1] = "idle" /\ done.ok /\ ~(kind = "rknn" /\ broken)
    /\ done.call = "run" \/ (done.call = "poll" /\ done.outs > 0)
    =>
        done.outs = Outs /\ done.shape = IF kind = "openvino" THEN infos.shape ELSE native

\* Where the memory of the outputs is of the size they say: Sophon's is of the
\* size of the infos, which stay those of the model.
RoomOK ==
    /\ kind \in {"rknn", "openvino"} => done.room = done.shape
    /\ kind = "sophon" /\ InCalls({"idle", "alloc_out", "launch", "sync"}) => infos.out = ModelShape
    /\ kind = "sophon" /\ stage[1] \in {"launch", "sync"} => room = ModelShape
    /\ kind = "tensorrt" /\ stage[1] \in {"enqueue", "sync"} => room = native
    /\ kind \in {"sophon", "tensorrt"} /\ done.ok /\ done.outs # 0 =>
         done.room = IF kind = "sophon" THEN ModelShape ELSE done.shape

\* Whose outputs a run answers with: while it polls, its own request is in flight.
AskedOK ==
    /\ \A i \in DOMAIN flight : flight[i].by <= calls
    /\ stage[1] = "run_poll" => \E i \in DOMAIN flight : flight[i].by = calls
    /\ RunsAnswerTheirOwn

\* A call is over, whatever memory its outputs came from and whose they are.
Ends(ok, outs, shape) ==
    /\ done'.call = stage[2] /\ done'.ok = ok /\ done'.outs = outs /\ done'.shape = shape
    /\ broken' = IF stage[2] = "reshape" THEN ~ok ELSE broken
    /\ Go(IF stage[2] = "init" /\ ~ok THEN "drop" ELSE "idle")
    /\ dying' = dying \o Reverse(local) /\ local' = <<>> /\ raw' = <<>>

HoldOK == OwnersOK /\ RowsOK /\ DyingOK /\ OrphansOK
BackInv == StageOK /\ FieldsOK /\ HoldOK /\ RknnOK /\ PoolOK /\ RunsOK
-----------------------------------------------------------------------------
(* The answer of a call *)

LEMMA AnswerEnds ==
    ASSUME NEW ok, NEW outs, NEW shape, NEW size, NEW asked, Answer(ok, outs, shape, size, asked)
    PROVE  Ends(ok, outs, shape)
  BY DEF Answer, Ends

LEMMA ReturnEnds ==
    ASSUME NEW ok, NEW outs, NEW shape, Return(ok, outs, shape)
    PROVE  Ends(ok, outs, shape)
  BY AnswerEnds DEF Return
-----------------------------------------------------------------------------
(* Rows of objects *)

\* A new object is none of those that exist: there are more names than objects.
LEMMA FreshIsNew ==
    ASSUME IsFiniteSet(live), NEW type
    PROVE  Fresh(type) \notin live /\ Fresh(type).type = type
  <1> DEFINE c == Cardinality(live)
             N == 1 .. c + 1
             name == [i \in N |-> [type |-> type, n |-> i]]
  <1>1. c \in Nat
    BY FS_CardinalityType
  <1>2. IsFiniteSet(N) /\ Cardinality(N) = c + 1
    BY <1>1, FS_Interval
  <1>3. \E o \in [type : {type}, n : N] : o \notin live
    <2>1. SUFFICES ASSUME \A o \in [type : {type}, n : N] : o \in live
                   PROVE  FALSE
      OBVIOUS
    <2>2. name \in Injection(N, live)
      BY <2>1 DEF Injection, IsInjective
    <2>3. Cardinality(N) <= Cardinality(live)
      BY <2>2, FS_Injection
    <2> QED
      BY <1>1, <1>2, <2>3
  <1>4. Fresh(type) \in [type : {type}, n : N] /\ Fresh(type) \notin live
    BY <1>3 DEF Fresh
  <1> QED
    BY <1>4

LEMMA SeqInto ==
    ASSUME NEW S, NEW T, NEW t \in Seq(S), \A i \in 1 .. Len(t) : t[i] \in T
    PROVE  t \in Seq(T)
  <1>1. Len(t) \in Nat /\ t = [i \in 1 .. Len(t) |-> t[i]]
    BY LenProperties
  <1> QED
    BY <1>1, IsASeq

LEMMA EmptyRow == ASSUME NEW L PROVE Row(<<>>, L) /\ ToSet(<<>>) = {}
  BY DEF Row, ToSet, IsInjective

LEMMA RowGrows ==
    ASSUME NEW L, NEW f, NEW s, Row(s, L)
    PROVE  Row(s, L \cup {f}) /\ ToSet(s) \subseteq L
  BY DEF Row, ToSet, IsInjective

LEMMA SingleRow == ASSUME NEW L, NEW f \in L PROVE Row(<<f>>, L) /\ ToSet(<<f>>) = {f}
  BY DEF Row, ToSet, IsInjective

LEMMA AppendRow ==
    ASSUME NEW L, NEW f \in L, NEW s, Row(s, L), f \notin ToSet(s)
    PROVE  Row(Append(s, f), L) /\ ToSet(Append(s, f)) = ToSet(s) \cup {f}
  BY DEF Row, ToSet, IsInjective

LEMMA JoinRow ==
    ASSUME NEW L, NEW s \in Seq(L), NEW t \in Seq(L), Row(s, L), Row(t, L), Apart(s, t)
    PROVE  Row(s \o t, L) /\ ToSet(s \o t) = ToSet(s) \cup ToSet(t)
  <1>1. s \o t \in Seq(L) /\ Len(s \o t) = Len(s) + Len(t) /\ s \in Seq(L) /\ t \in Seq(L)
    BY DEF Row
  <1>2. \A i \in 1 .. Len(s) + Len(t) :
           (s \o t)[i] = IF i <= Len(s) THEN s[i] ELSE t[i - Len(s)]
    BY <1>1
  <1>3. ToSet(s \o t) = ToSet(s) \cup ToSet(t)
    <2>1. ToSet(s \o t) \subseteq ToSet(s) \cup ToSet(t)
      BY <1>1, <1>2 DEF ToSet
    <2>2. ToSet(s) \subseteq ToSet(s \o t)
      BY <1>1, <1>2 DEF ToSet
    <2>3. ASSUME NEW i \in 1 .. Len(t) PROVE t[i] \in ToSet(s \o t)
      <3>1. i + Len(s) \in DOMAIN (s \o t) /\ (s \o t)[i + Len(s)] = t[i]
        BY <1>1, <1>2
      <3> QED
        BY <3>1 DEF ToSet
    <2> QED
      BY <1>1, <2>1, <2>2, <2>3 DEF ToSet
  <1>4. ASSUME NEW i \in DOMAIN (s \o t), NEW j \in DOMAIN (s \o t), (s \o t)[i] = (s \o t)[j]
        PROVE  i = j
    <2>1. CASE i <= Len(s) /\ j <= Len(s)
      BY <1>1, <1>2, <1>4, <2>1 DEF Row, IsInjective
    <2>2. CASE i > Len(s) /\ j > Len(s)
      <3>1. i - Len(s) \in DOMAIN t /\ j - Len(s) \in DOMAIN t /\ t[i - Len(s)] = t[j - Len(s)]
        BY <1>1, <1>2, <1>4, <2>2
      <3>2. i - Len(s) = j - Len(s)
        BY <3>1 DEF Row, IsInjective
      <3> QED
        BY <1>1, <3>2
    <2>3. CASE i <= Len(s) /\ j > Len(s)
      <3>1. s[i] \in ToSet(s) /\ t[j - Len(s)] \in ToSet(t) /\ s[i] = t[j - Len(s)]
        BY <1>1, <1>2, <1>4, <2>3 DEF ToSet
      <3> QED
        BY <3>1 DEF Apart
    <2>4. CASE i > Len(s) /\ j <= Len(s)
      <3>1. s[j] \in ToSet(s) /\ t[i - Len(s)] \in ToSet(t) /\ s[j] = t[i - Len(s)]
        BY <1>1, <1>2, <1>4, <2>4 DEF ToSet
      <3> QED
        BY <3>1 DEF Apart
    <2> QED
      BY <1>1, <2>1, <2>2, <2>3, <2>4
  <1> QED
    BY <1>1, <1>3, <1>4 DEF Row, IsInjective

LEMMA ReverseRow ==
    ASSUME NEW L, NEW s, Row(s, L)
    PROVE  /\ Row(Reverse(s), L) /\ ToSet(Reverse(s)) = ToSet(s)
           /\ Len(Reverse(s)) = Len(s)
           /\ \A i \in 1 .. Len(s) : Reverse(s)[i] = s[Len(s) - i + 1]
  <1>1. s \in Seq(L) /\ Len(s) \in Nat
    BY DEF Row
  <1>2. /\ Reverse(s) \in Seq(L) /\ Len(Reverse(s)) = Len(s)
        /\ \A i \in 1 .. Len(s) : Reverse(s)[i] = s[Len(s) - i + 1]
    BY <1>1 DEF Reverse
  <1>3. ToSet(Reverse(s)) = ToSet(s)
    <2>1. ASSUME NEW i \in 1 .. Len(s) PROVE Reverse(s)[i] \in ToSet(s)
      <3>1. Len(s) - i + 1 \in 1 .. Len(s) /\ Reverse(s)[i] = s[Len(s) - i + 1]
        BY <1>1, <1>2
      <3> QED
        BY <1>1, <3>1 DEF ToSet
    <2>2. ASSUME NEW i \in 1 .. Len(s) PROVE s[i] \in ToSet(Reverse(s))
      <3>1. Len(s) - i + 1 \in 1 .. Len(s) /\ Reverse(s)[Len(s) - i + 1] = s[i]
        BY <1>1, <1>2
      <3> QED
        BY <1>2, <3>1 DEF ToSet
    <2>3. \A x \in ToSet(s) : \E i \in 1 .. Len(s) : x = s[i]
      BY <1>1 DEF ToSet
    <2>4. \A x \in ToSet(Reverse(s)) : \E i \in 1 .. Len(s) : x = Reverse(s)[i]
      BY <1>2 DEF ToSet
    <2>5. ToSet(s) \subseteq ToSet(Reverse(s))
      BY <2>2, <2>3
    <2>6. ToSet(Reverse(s)) \subseteq ToSet(s)
      BY <2>1, <2>4
    <2> QED
      BY <2>5, <2>6
  <1>4. ASSUME NEW i \in DOMAIN Reverse(s), NEW j \in DOMAIN Reverse(s), Reverse(s)[i] = Reverse(s)[j]
        PROVE  i = j
    <2>1. i \in 1 .. Len(s) /\ j \in 1 .. Len(s)
      BY <1>2
    <2>2. Len(s) - i + 1 \in DOMAIN s /\ Len(s) - j + 1 \in DOMAIN s
      BY <1>1, <2>1
    <2>3. s[Len(s) - i + 1] = s[Len(s) - j + 1]
      BY <1>2, <1>4, <2>1
    <2>4. Len(s) - i + 1 = Len(s) - j + 1
      BY <2>2, <2>3 DEF Row, IsInjective
    <2> QED
      BY <1>1, <2>1, <2>4
  <1> QED
    BY <1>2, <1>3, <1>4 DEF Row, IsInjective

LEMMA TailRow ==
    ASSUME NEW L, NEW s, Row(s, L), s # <<>>
    PROVE  /\ Row(Tail(s), L \ {Head(s)}) /\ ToSet(Tail(s)) = ToSet(s) \ {Head(s)}
           /\ Head(s) \in ToSet(s)
  <1>1. s \in Seq(L) /\ Len(s) \in Nat /\ Len(s) > 0 /\ Head(s) = s[1]
    BY DEF Row
  <1>2. /\ Tail(s) \in Seq(L) /\ Len(Tail(s)) = Len(s) - 1
        /\ \A i \in 1 .. Len(s) - 1 : Tail(s)[i] = s[i + 1]
    BY <1>1
  <1>3. \A i \in 2 .. Len(s) : s[i] # s[1]
    BY <1>1 DEF Row, IsInjective
  <1>4. \A i \in 1 .. Len(s) - 1 : Tail(s)[i] \in L \ {Head(s)}
    BY <1>1, <1>2, <1>3
  <1>5. Tail(s) \in Seq(L \ {Head(s)})
    <2>1. Len(s) - 1 \in Nat /\ Tail(s) = [i \in 1 .. Len(s) - 1 |-> Tail(s)[i]]
      BY <1>1, <1>2, LenProperties
    <2>2. Len(Tail(s)) = Len(s) - 1
      BY <1>2
    <2> QED
      BY <1>2, <1>4, <2>2, SeqInto
  <1>6. ToSet(Tail(s)) = ToSet(s) \ {Head(s)}
    <2>1. ToSet(Tail(s)) \subseteq ToSet(s) \ {Head(s)}
      BY <1>1, <1>2, <1>3 DEF ToSet
    <2>2. ASSUME NEW i \in 1 .. Len(s), s[i] # Head(s) PROVE s[i] \in ToSet(Tail(s))
      <3>1. i - 1 \in 1 .. Len(s) - 1 /\ Tail(s)[i - 1] = s[i]
        BY <1>1, <1>2, <2>2
      <3>2. DOMAIN Tail(s) = 1 .. Len(s) - 1
        BY <1>2
      <3> QED
        BY <3>1, <3>2, Zenon DEF ToSet
    <2> QED
      <3>1. \A x \in ToSet(s) : \E i \in 1 .. Len(s) : x = s[i]
        BY <1>1 DEF ToSet
      <3> QED
        BY <2>1, <2>2, <3>1
  <1>7. \A i, j \in DOMAIN Tail(s) : Tail(s)[i] = Tail(s)[j] => i = j
    BY <1>1, <1>2 DEF Row, IsInjective
  <1> QED
    BY <1>1, <1>5, <1>6, <1>7 DEF Row, IsInjective, ToSet

LEMMA RowLess ==
    ASSUME NEW L, NEW s, NEW o, Row(s, L), o \notin ToSet(s)
    PROVE  Row(s, L \ {o})
  <1>1. \A i \in 1 .. Len(s) : s[i] \in L \ {o}
    BY LenProperties DEF Row, ToSet
  <1> QED
    BY <1>1, SeqInto DEF Row

-----------------------------------------------------------------------------
(* What the steps do with objects *)

\* A call returns: its values die, what it held without an owner is forgotten.
LEMMA OwnReturn ==
    ASSUME NEW L, NEW h, NEW m, NEW l, NEW r, Owned(L, h, m, l, r, <<>>, {})
    PROVE  /\ Owned(L, h, m, <<>>, <<>>, Reverse(l), {})
           /\ Mine(h, m, l, r, <<>>) = Mine(h, m, <<>>, <<>>, Reverse(l)) \cup ToSet(r)
  <1>1. Row(Reverse(l), L) /\ ToSet(Reverse(l)) = ToSet(l)
    BY ReverseRow DEF Owned
  <1> QED
    BY <1>1, EmptyRow DEF Owned, Apart, Mine

\* As before, and what had no owner is released.
LEMMA OwnGiveBack ==
    ASSUME NEW L, NEW h, NEW m, NEW r, Owned(L, h, m, <<>>, r, <<>>, {})
    PROVE  /\ Owned(L \ ToSet(r), h, m, <<>>, <<>>, <<>>, {})
           /\ Mine(h, m, <<>>, <<>>, <<>>) = Mine(h, m, <<>>, r, <<>>) \ ToSet(r)
  <1> DEFINE K == L \ ToSet(r)
  <1>1. IsFiniteSet(K)
    BY FS_Subset DEF Owned
  <1>2. Row(h, K)
    <2>1. \A i \in 1 .. Len(h) : h[i] \in K
      BY LenProperties DEF Owned, Row, Apart, ToSet
    <2> QED
      BY <2>1, SeqInto DEF Owned, Row
  <1>3. Row(m, K)
    <2>1. \A i \in 1 .. Len(m) : m[i] \in K
      BY LenProperties DEF Owned, Row, Apart, ToSet
    <2> QED
      BY <2>1, SeqInto DEF Owned, Row
  <1> QED
    BY <1>1, <1>2, <1>3, EmptyRow DEF Owned, Apart, Mine

\* A new object, owned by a value of the call.
LEMMA OwnCreate ==
    ASSUME NEW L, NEW h, NEW m, NEW l, NEW r, NEW d, NEW u, NEW f, f \notin L,
           Owned(L, h, m, l, r, d, u)
    PROVE  /\ Owned(L \cup {f}, h, m, Append(l, f), r, d, u)
           /\ Mine(h, m, Append(l, f), r, d) = Mine(h, m, l, r, d) \cup {f}
           /\ Append(l, f) # <<>>
  <1>1. /\ Row(h, L \cup {f}) /\ Row(m, L \cup {f}) /\ Row(l, L \cup {f}) /\ Row(r, L \cup {f}) /\ Row(d, L \cup {f})
        /\ f \notin ToSet(h) /\ f \notin ToSet(m) /\ f \notin ToSet(l) /\ f \notin ToSet(r) /\ f \notin ToSet(d)
    BY RowGrows DEF Owned
  <1>2. Row(Append(l, f), L \cup {f}) /\ ToSet(Append(l, f)) = ToSet(l) \cup {f}
    BY <1>1, AppendRow
  <1>3. IsFiniteSet(L \cup {f})
    BY FS_AddElement DEF Owned
  <1>4. Append(l, f) # <<>>
    BY <1>2, EmptyRow
  <1> QED
    BY <1>1, <1>2, <1>3, <1>4 DEF Owned, Apart, Mine

\* A new object without an owner.
LEMMA OwnRaw ==
    ASSUME NEW L, NEW h, NEW m, NEW l, NEW d, NEW u, NEW f, f \notin L,
           NEW r, r = <<>>, Owned(L, h, m, l, r, d, u),
           NEW K, K = L \cup {f}, NEW s, Row(s, K), \A x : x \in ToSet(s) <=> x = f
    PROVE  /\ Owned(K, h, m, l, s, d, u)
           /\ \A x : x \in Mine(h, m, l, s, d) <=> x \in Mine(h, m, l, r, d) \/ x = f
  <1>1. /\ Row(h, L \cup {f}) /\ Row(m, L \cup {f}) /\ Row(l, L \cup {f}) /\ Row(d, L \cup {f})
        /\ f \notin ToSet(h) /\ f \notin ToSet(m) /\ f \notin ToSet(l) /\ f \notin ToSet(d)
    BY RowGrows DEF Owned
  <1>2. IsFiniteSet(L \cup {f})
    BY FS_AddElement DEF Owned
  <1> QED
    BY <1>1, <1>2, EmptyRow DEF Owned, Apart, Mine

Before(f, s) == <<f>> \o s

\* A row with a new object before the others.
LEMMA FirstRow ==
    ASSUME NEW L, NEW h, NEW f, f \notin L, Row(h, L)
    PROVE  Row(Before(f, h), L \cup {f}) /\ \A x : x \in ToSet(Before(f, h)) <=> x \in ToSet(h) \/ x = f
  <1>1. h \in Seq(L)
    BY DEF Row
  <1>2. PICK s, K : s = <<f>> /\ K = L \cup {f}
    OBVIOUS
  <1>3. Row(s, K) /\ s \in Seq(K) /\ (\A x : x \in ToSet(s) <=> x = f) /\ K = L \cup {f}
    <2>1. Row(<<f>>, L \cup {f}) /\ ToSet(<<f>>) = {f}
      BY SingleRow
    <2> QED
      BY <1>2, <2>1 DEF Row
  <1>4. Row(h, K) /\ ToSet(h) \subseteq L
    BY <1>1, <1>3, RowGrows
  <1>5. Apart(s, h) /\ h \in Seq(K)
    BY <1>3, <1>4 DEF Row, Apart
  <1>6. Row(s, K) /\ s \in Seq(K)
    BY <1>3
  <1>7. Row(s \o h, K) /\ ToSet(s \o h) = ToSet(s) \cup ToSet(h)
    BY <1>4, <1>5, <1>6, JoinRow
  <1>8. s \o h = Before(f, h)
    BY <1>2 DEF Before
  <1> QED
    BY <1>2, <1>3, <1>7, <1>8

\* A new object goes to a field.
LEMMA OwnFirst ==
    ASSUME NEW L, NEW h, NEW m, NEW l, NEW r, NEW d, NEW u, NEW f, f \notin L,
           Owned(L, h, m, l, r, d, u)
    PROVE  /\ Owned(L \cup {f}, Before(f, h), m, l, r, d, u)
           /\ \A x : x \in Mine(Before(f, h), m, l, r, d) <=> x \in Mine(h, m, l, r, d) \/ x = f
  <1>1. /\ Row(m, L \cup {f}) /\ Row(l, L \cup {f}) /\ Row(r, L \cup {f}) /\ Row(d, L \cup {f})
        /\ f \notin ToSet(h) /\ f \notin ToSet(m) /\ f \notin ToSet(l) /\ f \notin ToSet(r) /\ f \notin ToSet(d)
    BY RowGrows DEF Owned
  <1>2. IsFiniteSet(L \cup {f})
    BY FS_AddElement DEF Owned
  <1>3. Row(Before(f, h), L \cup {f}) /\ \A x : x \in ToSet(Before(f, h)) <=> x \in ToSet(h) \/ x = f
    BY FirstRow DEF Owned
  <1> QED
    BY <1>1, <1>2, <1>3 DEF Owned, Apart, Mine

\* What had no owner goes to the field that was empty.
LEMMA OwnAdopt ==
    ASSUME NEW L, NEW m, NEW l, NEW r, NEW d, NEW u, Owned(L, <<>>, m, l, r, d, u)
    PROVE  /\ Owned(L, r, m, l, <<>>, d, u)
           /\ Mine(r, m, l, <<>>, d) = Mine(<<>>, m, l, r, d)
  BY EmptyRow DEF Owned, Apart, Mine

\* The values of the call go to the fields that were empty.
LEMMA OwnBound ==
    ASSUME NEW L, NEW m, NEW l, NEW r, NEW d, Owned(L, <<>>, m, l, r, d, {})
    PROVE  /\ Owned(L, Reverse(l), m, <<>>, r, d, {})
           /\ Mine(Reverse(l), m, <<>>, r, d) = Mine(<<>>, m, l, r, d)
  <1>1. Row(Reverse(l), L) /\ ToSet(Reverse(l)) = ToSet(l)
    BY ReverseRow DEF Owned
  <1> QED
    BY <1>1, EmptyRow DEF Owned, Apart, Mine

\* io_mems die.
LEMMA OwnMemsDie ==
    ASSUME NEW L, NEW h, NEW m, NEW l, NEW r, NEW u, Owned(L, h, m, l, r, <<>>, u)
    PROVE  /\ Owned(L, h, <<>>, l, r, m, u)
           /\ Mine(h, <<>>, l, r, m) = Mine(h, m, l, r, <<>>)
  BY EmptyRow DEF Owned, Apart, Mine

\* io_mems are complete.
LEMMA OwnMems ==
    ASSUME NEW L, NEW h, NEW l, NEW r, NEW d, Owned(L, h, <<>>, l, r, d, {})
    PROVE  /\ Owned(L, h, l, <<>>, r, d, {})
           /\ Mine(h, l, <<>>, r, d) = Mine(h, <<>>, l, r, d)
  BY EmptyRow DEF Owned, Apart, Mine

\* The values of the call die, the oldest first.
LEMMA OwnLocalsDie ==
    ASSUME NEW L, NEW h, NEW m, NEW l, NEW r, Owned(L, h, m, l, r, <<>>, {})
    PROVE  /\ Owned(L, h, m, <<>>, r, l, {})
           /\ Mine(h, m, <<>>, r, l) = Mine(h, m, l, r, <<>>)
  BY EmptyRow DEF Owned, Apart, Mine

\* As before, after one that was just made.
LEMMA OwnOneMoreDies ==
    ASSUME NEW L, NEW h, NEW m, NEW l, NEW r, NEW f, f \notin L, Owned(L, h, m, l, r, <<>>, {})
    PROVE  /\ Owned(L \cup {f}, h, m, <<>>, r, Before(f, l), {})
           /\ \A x : x \in Mine(h, m, <<>>, r, Before(f, l)) <=> x \in Mine(h, m, l, r, <<>>) \/ x = f
  <1>1. /\ Row(h, L \cup {f}) /\ Row(m, L \cup {f}) /\ Row(r, L \cup {f})
        /\ f \notin ToSet(h) /\ f \notin ToSet(m) /\ f \notin ToSet(l) /\ f \notin ToSet(r)
    BY RowGrows DEF Owned
  <1>2. IsFiniteSet(L \cup {f})
    BY FS_AddElement DEF Owned
  <1>3. Row(Before(f, l), L \cup {f}) /\ \A x : x \in ToSet(Before(f, l)) <=> x \in ToSet(l) \/ x = f
    BY FirstRow DEF Owned
  <1> QED
    BY <1>1, <1>2, <1>3, EmptyRow DEF Owned, Apart, Mine

\* The backend is dropped.
LEMMA OwnDrop ==
    ASSUME NEW L, NEW h, NEW m, NEW l, NEW r, NEW u, Owned(L, h, m, l, r, <<>>, u)
    PROVE  /\ Owned(L, <<>>, <<>>, l, r, m \o h, u)
           /\ Mine(<<>>, <<>>, l, r, m \o h) = Mine(h, m, l, r, <<>>)
  <1>1. Row(m, L) /\ Row(h, L) /\ Apart(m, h)
    BY DEF Owned, Apart
  <1>2. m \in Seq(L) /\ h \in Seq(L)
    BY <1>1 DEF Row
  <1>3. Row(m \o h, L) /\ ToSet(m \o h) = ToSet(m) \cup ToSet(h)
    BY <1>1, <1>2, JoinRow
  <1> QED
    BY <1>3, EmptyRow DEF Owned, Apart, Mine

\* One that is released leaves the others where they are.
LEMMA OwnRelease ==
    ASSUME NEW L, NEW h, NEW m, NEW l, NEW r, NEW d, NEW u, Owned(L, h, m, l, r, d, u),
           NEW o, NEW t, NEW K, K = L \ {o}, Row(t, K), ToSet(t) = ToSet(d) \ {o}, o \in ToSet(d)
    PROVE  /\ Owned(K, h, m, l, r, t, u)
           /\ Mine(h, m, l, r, t) = Mine(h, m, l, r, d) \ {o}
  <1>2. o \notin ToSet(h) /\ o \notin ToSet(m) /\ o \notin ToSet(l) /\ o \notin ToSet(r)
    BY DEF Owned, Apart
  <1>3. Row(h, K) /\ Row(m, K) /\ Row(l, K) /\ Row(r, K)
    BY <1>2, RowLess DEF Owned
  <1>4. IsFiniteSet(K)
    BY FS_RemoveElement DEF Owned
  <1>5. Owned(K, h, m, l, r, t, u)
    BY <1>3, <1>4 DEF Owned, Apart
  <1> QED
    BY <1>2, <1>5 DEF Mine
-----------------------------------------------------------------------------
(* Who holds what, step by step *)

LEMMA NeedsFacts ==
    ASSUME NEW k
    PROVE  /\ NeedsOf(k, "runtime") = {} /\ NeedsOf(k, "handle") = {} /\ NeedsOf(k, "context") = {}
           /\ NeedsOf(k, "engine") = {"runtime"} /\ NeedsOf(k, "execution") = {"engine"}
           /\ NeedsOf(k, "bmrt") = {"handle"}
           /\ \A t : NeedsOf(k, t) \cap (Leaf \cup {"bmrt", "execution"}) = {}
  BY DEF NeedsOf, Leaf

LEMMA OrphansAre == Orphans = live \ Mine(held, mems.objs, local, raw, dying)
  BY DEF Orphans, Mine

\* While a call is under way, no context is forgotten.
LEMMA NoLostContext ==
    ASSUME OrphansOK, stage[1] \notin {"drop", "dropped"}
    PROVE  \A o \in Orphans : kind = "rknn" /\ o.type = "outputs"
  BY DEF OrphansOK

\* A step that moves no object.
LEMMA GoHolds ==
    ASSUME HoldOK, dying = <<>>, stage[1] \notin {"drop", "dropped"},
           UNCHANGED <<kind, live, held, mems, local, raw, dying, inUse>>
    PROVE  OwnersOK' /\ DyingOK' /\ OrphansOK'
  <1>1. OwnersOK'
    BY DEF HoldOK, OwnersOK
  <1>2. DyingOK'
    BY DEF DyingOK
  <1>3. Orphans' = Orphans
    BY DEF Orphans
  <1>4. OrphansOK'
    BY <1>3, NoLostContext DEF HoldOK, OrphansOK
  <1> QED
    BY <1>1, <1>2, <1>4

\* A call returns.
LEMMA EndHolds ==
    ASSUME BackInv, dying = <<>>, stage[1] \notin {"drop", "dropped"},
           UNCHANGED <<kind, live, held, mems>>, inUse' = {},
           NEW ok \in BOOLEAN, NEW outs, NEW shape, Ends(ok, outs, shape),
           stage[1] = "core_mask" => ~ok
    PROVE  HoldOK'
  <1>1. /\ dying' = Reverse(local) /\ local' = <<>> /\ raw' = <<>>
    <2>1. Row(Reverse(local), live)
      BY ReverseRow DEF BackInv, HoldOK, OwnersOK, Owned
    <2>2. Reverse(local) \in Seq(live)
      BY <2>1 DEF Row
    <2> QED
      BY <2>2, ConcatEmptySeq DEF Ends
  <1>2. stage' \in {<<"idle", stage[2]>>, <<"drop", stage[2]>>}
    BY DEF Ends, Go
  <1>3. Owned(live, held, mems.objs, local, raw, <<>>, {})
    BY DEF BackInv, HoldOK, OwnersOK, Owned
  <1>4. Owned(live', held', mems'.objs, local', raw', dying', inUse')
    BY <1>1, <1>3, OwnReturn
  <1>5. OwnersOK'
    BY <1>4 DEF BackInv, HoldOK, OwnersOK
  <1>6. RowsOK'
    <2>1. ~Begun' /\ stage'[1] \in {"idle", "drop"}
      BY <1>2 DEF Begun, AllKinds
    <2> QED
      BY <1>1, <2>1 DEF BackInv, HoldOK, RowsOK, NoMems
  <1>7. DyingOK'
    <2>0. /\ local \in Seq(live) /\ Len(dying') = Len(local) /\ dying' \in Seq(live)
          /\ \A i \in 1 .. Len(local) : dying'[i] = local[Len(local) - i + 1]
          /\ DOMAIN dying' = 1 .. Len(local) /\ Len(local) \in Nat
      BY <1>1, ReverseRow DEF BackInv, HoldOK, OwnersOK, Owned, Row
    <2>1. CASE stage[1] \notin {"engine", "ctx", "bindings"}
      <3>1. \A i \in 1 .. Len(local) : local[i].type \in Leaf
        BY <2>0, <2>1 DEF BackInv, HoldOK, RowsOK
      <3>2. \A i \in 1 .. Len(local) : Len(local) - i + 1 \in 1 .. Len(local)
        BY <2>0
      <3> QED
        <4>1. \A i \in 1 .. Len(local) : dying'[i].type \in Leaf
          BY <2>0, <3>1, <3>2
        <4> QED
          BY <2>0, <4>1 DEF DyingOK
    <2>2. CASE stage[1] \in {"engine", "ctx", "bindings"}
      <3>1. held = <<>> /\ mems = NoMems
        BY <2>2 DEF BackInv, HoldOK, RowsOK
      <3>2. local[1].type = "runtime" /\ (Len(local) = 3 => local[2].type = "engine" /\ local[3].type = "execution")
        BY <2>0, <2>2 DEF BackInv, HoldOK, RowsOK
      <3>3. Len(local) \in 1 .. 3
        BY <2>0, <2>2 DEF BackInv, HoldOK, RowsOK
      <3>4. \A i, j \in 1 .. Len(local) : i < j => dying'[i].type \notin NeedsOf(kind', dying'[j].type)
        <4> SUFFICES ASSUME NEW i \in 1 .. Len(local), NEW j \in 1 .. Len(local), i < j
                     PROVE  dying'[i].type \notin NeedsOf(kind', dying'[j].type)
          OBVIOUS
        <4>1. CASE j = Len(local)
          <5>0. Len(local) - j + 1 = 1
            BY <2>0, <4>1
          <5>1. dying'[j].type = "runtime"
            BY <2>0, <3>2, <5>0
          <5> QED
            BY <5>1, NeedsFacts
        <4>2. CASE j # Len(local)
          <5>0. PICK n \in 1 .. 3 : n = Len(local)
            BY <3>3
          <5>a. i \in 1 .. n /\ j \in 1 .. n /\ j # n
            BY <4>2, <5>0
          <5>b. n = 3 /\ j = 2 /\ i = 1
            BY <5>a
          <5>1. Len(local) = 3 /\ j = 2 /\ i = 1
            BY <5>0, <5>b
          <5>2. Len(local) - j + 1 = 2 /\ Len(local) - i + 1 = 3
            BY <5>1
          <5>3. dying'[j].type = "engine" /\ dying'[i].type = "execution"
            BY <2>0, <3>2, <5>1, <5>2
          <5> QED
            BY <5>3, NeedsFacts
        <4> QED
          BY <4>1, <4>2
      <3> QED
        BY <1>1, <2>0, <3>1, <3>4 DEF DyingOK, Needs
    <2> QED
      BY <2>1, <2>2
  <1>8. OrphansOK'
    <2>1. Orphans' = Orphans \cup ToSet(raw)
      <3>1. Mine(held, mems.objs, local, raw, <<>>)
              = Mine(held, mems.objs, <<>>, <<>>, Reverse(local)) \cup ToSet(raw)
        BY <1>3, OwnReturn
      <3>2. Apart(held, raw) /\ Apart(mems.objs, raw) /\ Apart(local, raw) /\ ToSet(raw) \subseteq live
        BY <1>3, RowGrows DEF Owned
      <3>3. ToSet(Reverse(local)) = ToSet(local) /\ ToSet(<<>>) = {}
        BY <1>3, ReverseRow, EmptyRow DEF Owned
      <3>4. Mine(held, mems.objs, <<>>, <<>>, Reverse(local)) \cap ToSet(raw) = {}
        BY <3>2, <3>3 DEF Mine, Apart
      <3>5. Orphans' = live \ Mine(held, mems.objs, <<>>, <<>>, Reverse(local))
        BY <1>1 DEF Orphans, Mine
      <3>6. Orphans = live \ Mine(held, mems.objs, local, raw, <<>>)
        BY OrphansAre
      <3> QED
        BY <3>1, <3>2, <3>4, <3>5, <3>6
    <2>2. \A o \in ToSet(raw) : kind = "rknn" /\ (o.type = "outputs" \/ (o.type = "context" /\ held = <<>> /\ stage'[1] = "drop"))
      <3>1. CASE raw = <<>>
        BY <3>1, EmptyRow
      <3>2. CASE raw # <<>>
        <4>1. stage[1] \in {"core_mask", "copy"} /\ Len(raw) = 1 /\ kind = "rknn"
          BY <3>2 DEF BackInv, HoldOK, RowsOK, StageOK, RknnPlaces
        <4>2. raw \in Seq(live)
          BY <1>3 DEF Owned, Row
        <4>3. ToSet(raw) = {raw[1]}
          BY <4>1, <4>2 DEF ToSet
        <4>4. stage[1] = "core_mask" => stage[2] = "init" /\ stage'[1] = "drop"
          BY DEF BackInv, StageOK, Ends, Go
        <4> QED
          BY <4>1, <4>3, <4>4 DEF BackInv, HoldOK, RowsOK
      <3> QED
        BY <3>1, <3>2
    <2>3. \A o \in Orphans : kind = "rknn" /\ o.type = "outputs"
      BY NoLostContext DEF BackInv, HoldOK
    <2> QED
      BY <2>1, <2>2, <2>3 DEF OrphansOK
  <1> QED
    BY <1>5, <1>6, <1>7, <1>8 DEF HoldOK

\* A new object, owned by a value of the call.
LEMMA CreateHolds ==
    ASSUME HoldOK, dying = <<>>, stage[1] \notin {"drop", "dropped"}, NEW type,
           live' = live \cup {Fresh(type)}, local' = Append(local, Fresh(type)),
           UNCHANGED <<kind, held, mems, raw, dying, inUse>>
    PROVE  /\ OwnersOK' /\ DyingOK' /\ OrphansOK'
           /\ Len(local) \in Nat /\ DOMAIN local = 1 .. Len(local)
           /\ local' # <<>> /\ Len(local') = Len(local) + 1 /\ DOMAIN local' = 1 .. Len(local) + 1
           /\ \A i \in 1 .. Len(local) : local'[i] = local[i]
           /\ local'[Len(local) + 1].type = type
  <1>1. Fresh(type) \notin live /\ Fresh(type).type = type
    BY FreshIsNew DEF HoldOK, OwnersOK, Owned
  <1>2. PICK f : f = Fresh(type)
    OBVIOUS
  <1>3. /\ Owned(live \cup {f}, held, mems.objs, Append(local, f), raw, dying, inUse)
        /\ Mine(held, mems.objs, Append(local, f), raw, dying) = Mine(held, mems.objs, local, raw, dying) \cup {f}
        /\ Append(local, f) # <<>>
    BY <1>1, <1>2, OwnCreate DEF HoldOK, OwnersOK
  <1>4. mems \in [objs : Seq(live \cup {f}), shape : Sizes]
    BY RowGrows DEF HoldOK, OwnersOK, Owned, Row
  <1>5. OwnersOK'
    BY <1>2, <1>3, <1>4 DEF OwnersOK
  <1>6. DyingOK'
    BY DEF DyingOK
  <1>7. Orphans' = Orphans
    BY <1>1, <1>2, <1>3 DEF Orphans, Mine
  <1>8. OrphansOK'
    BY <1>7, NoLostContext DEF HoldOK, OrphansOK
  <1>9. local \in Seq(live) /\ local \in Seq(live \cup {f})
    BY RowGrows DEF HoldOK, OwnersOK, Owned, Row
  <1>10. /\ Len(local') = Len(local) + 1 /\ DOMAIN local' = 1 .. Len(local) + 1
         /\ \A i \in 1 .. Len(local) : local'[i] = local[i]
         /\ local'[Len(local) + 1] = f
         /\ Len(local) \in Nat /\ DOMAIN local = 1 .. Len(local)
    <2>1. f \in live \cup {f} /\ local' = Append(local, f)
      BY <1>2
    <2> QED
      BY <1>9, <2>1, AppendProperties
  <1> QED
    BY <1>1, <1>2, <1>3, <1>5, <1>6, <1>8, <1>10

\* One that nothing else needs, on the way through a run or an init.
LEMMA LeafHolds ==
    ASSUME BackInv, dying = <<>>, NEW type \in Leaf,
           stage[1] \in {"load", "sophon", "alloc_out", "tensorrt", "bind_in", "bind_out", "bind"},
           NEW next \in {"discover", "sophon", "alloc_out", "launch", "bind_in", "bind_out", "enqueue", "bind"},
           next = "sophon" => stage[2] # "init", next = "bind" => stage[1] = "bind" /\ type = "mem",
           Go(next), live' = live \cup {Fresh(type)}, local' = Append(local, Fresh(type)),
           UNCHANGED <<kind, held, mems, raw, dying, inUse>>
    PROVE  HoldOK'
  <1>1. /\ OwnersOK' /\ DyingOK' /\ OrphansOK'
        /\ Len(local) \in Nat /\ DOMAIN local = 1 .. Len(local)
        /\ local' # <<>> /\ Len(local') = Len(local) + 1 /\ DOMAIN local' = 1 .. Len(local) + 1
        /\ \A i \in 1 .. Len(local) : local'[i] = local[i]
        /\ local'[Len(local) + 1].type = type
    BY CreateHolds DEF BackInv
  <1>2. stage' = <<next, stage[2]>>
    BY DEF Go
  <1>3. \A i \in DOMAIN local : local[i].type \in Leaf
    BY DEF BackInv, HoldOK, RowsOK
  <1>4. \A i \in DOMAIN local' : local'[i].type \in Leaf
    BY <1>1, <1>3
  <1>5. ~Begun'
    BY <1>2 DEF Begun, AllKinds
  <1>6. raw' = <<>> /\ inUse' = {}
    BY DEF BackInv, HoldOK, RowsOK
  <1>8. next = "bind" => \A i \in DOMAIN local' : local'[i].type = "mem"
    <2>1. next = "bind" => \A i \in DOMAIN local : local[i].type = "mem"
      BY DEF BackInv, HoldOK, RowsOK
    <2> QED
      BY <1>1, <2>1
  <1>7. RowsOK'
    BY <1>2, <1>4, <1>5, <1>6, <1>8 DEF BackInv, HoldOK, RowsOK
  <1> QED
    BY <1>1, <1>7 DEF HoldOK

\* Runtime, engine and execution context.
LEMMA TrtHolds ==
    ASSUME BackInv, dying = <<>>, NEW at, NEW type, NEW next,
           <<at, type, next>> \in {<<"tensorrt", "runtime", "engine">>, <<"engine", "engine", "ctx">>,
                                   <<"ctx", "execution", "bindings">>},
           stage[1] = at, stage[2] = "init",
           Go(next), live' = live \cup {Fresh(type)}, local' = Append(local, Fresh(type)),
           UNCHANGED <<kind, held, mems, raw, dying, inUse>>
    PROVE  HoldOK'
  <1>0. at \in {"tensorrt", "engine", "ctx"} /\ stage[1] \in {"tensorrt", "engine", "ctx"}
    OBVIOUS
  <1>1. /\ OwnersOK' /\ DyingOK' /\ OrphansOK'
        /\ Len(local) \in Nat /\ DOMAIN local = 1 .. Len(local)
        /\ local' # <<>> /\ Len(local') = Len(local) + 1 /\ DOMAIN local' = 1 .. Len(local) + 1
        /\ \A i \in 1 .. Len(local) : local'[i] = local[i]
        /\ local'[Len(local) + 1].type = type
    BY <1>0, CreateHolds DEF BackInv
  <1>2. stage' = <<next, stage[2]>>
    BY DEF Go
  <1>3. ~Begun' /\ held = <<>> /\ mems = NoMems
    BY <1>0, <1>2 DEF Begun, AllKinds, BackInv, HoldOK, RowsOK
  <1>4. raw' = <<>> /\ inUse' = {}
    BY <1>0 DEF BackInv, HoldOK, RowsOK
  <1>5. CASE at = "tensorrt"
    <2>1. local = <<>>
      BY <1>5 DEF BackInv, HoldOK, RowsOK, Begun, AllKinds
    <2>2. Len(local') = 1 /\ local'[1].type = "runtime" /\ stage'[1] = "engine"
      BY <1>1, <1>2, <1>5, <2>1
    <2>3. RowsOK'
      BY <1>1, <1>3, <1>4, <2>2 DEF BackInv, HoldOK, RowsOK
    <2> QED
      BY <1>1, <2>3 DEF HoldOK
  <1>6. CASE at = "engine"
    <2>1. Len(local) = 1 /\ local[1].type = "runtime"
      BY <1>6 DEF BackInv, HoldOK, RowsOK
    <2>2. Len(local') = 2 /\ local'[1].type = "runtime" /\ local'[2].type = "engine" /\ stage'[1] = "ctx"
      BY <1>1, <1>2, <1>6, <2>1
    <2>3. RowsOK'
      BY <1>1, <1>3, <1>4, <2>2 DEF BackInv, HoldOK, RowsOK
    <2> QED
      BY <1>1, <2>3 DEF HoldOK
  <1>7. CASE at = "ctx"
    <2>1. Len(local) = 2 /\ local[1].type = "runtime" /\ local[2].type = "engine"
      BY <1>7 DEF BackInv, HoldOK, RowsOK
    <2>2. /\ Len(local') = 3 /\ local'[1].type = "runtime" /\ local'[2].type = "engine"
          /\ local'[3].type = "execution" /\ stage'[1] = "bindings"
      BY <1>1, <1>2, <1>7, <2>1
    <2>3. RowsOK'
      BY <1>1, <1>3, <1>4, <2>2 DEF BackInv, HoldOK, RowsOK
    <2> QED
      BY <1>1, <2>3 DEF HoldOK
  <1> QED
    BY <1>0, <1>5, <1>6, <1>7

\* A call goes on, or a new one begins, and no object moves.
LEMMA GoRows ==
    ASSUME BackInv, dying = <<>>,
           stage[1] \in {"new", "idle"} \cup AllKinds,
           stage'[1] \in {"count", "zero_copy", "bind", "staging", "outputs", "run_poll", "compile"} \cup AllKinds,
           stage'[1] \in AllKinds => stage[1] = "new" \/ stage'[2] # "init",
           stage'[1] = "bind" => mems = NoMems, stage'[1] = "zero_copy" => mems # NoMems,
           local = <<>>,
           UNCHANGED <<kind, live, held, mems, local, raw, dying, inUse>>
    PROVE  HoldOK'
  <1>1. OwnersOK' /\ DyingOK' /\ OrphansOK'
    BY GoHolds DEF BackInv, AllKinds
  <1>2. raw = <<>> /\ inUse = {}
    BY DEF BackInv, HoldOK, RowsOK, AllKinds
  <1>3. RowsOK'
    <2>1. CASE stage[1] = "new"
      <3>1. held = <<>> /\ mems = NoMems
        BY <2>1 DEF BackInv, HoldOK, RowsOK, Begun
      <3> QED
        BY <1>2, <3>1 DEF RowsOK, NoMems, AllKinds, Begun
    <2>2. CASE stage[1] # "new"
      <3>1. ~Begun'
        BY <2>2 DEF Begun, AllKinds
      <3> QED
        BY <1>2, <3>1 DEF BackInv, HoldOK, RowsOK, AllKinds
    <2> QED
      BY <2>1, <2>2
  <1> QED
    BY <1>1, <1>3 DEF HoldOK

\* The device begins to work with the buffers.
LEMMA LaunchHolds ==
    ASSUME BackInv, dying = <<>>, stage[1] \in {"launch", "enqueue"}, stage'[1] = "sync",
           inUse' = ToSet(local), UNCHANGED <<kind, live, held, mems, local, raw, dying>>
    PROVE  HoldOK'
  <1>1. OwnersOK'
    BY DEF BackInv, HoldOK, OwnersOK, Owned
  <1>2. DyingOK'
    BY DEF DyingOK
  <1>3. Orphans' = Orphans
    BY DEF Orphans
  <1>4. OrphansOK'
    BY <1>3, NoLostContext DEF BackInv, HoldOK, OrphansOK
  <1>5. RowsOK'
    BY DEF BackInv, HoldOK, RowsOK, Begun, AllKinds
  <1> QED
    BY <1>1, <1>2, <1>4, <1>5 DEF HoldOK

LEMMA ReleaseHolds == BackInv /\ Release => HoldOK'
  <1> SUFFICES ASSUME BackInv, Release PROVE HoldOK'
    OBVIOUS
  <1>1. /\ dying # <<>> /\ live' = live \ {Head(dying)} /\ dying' = Tail(dying)
        /\ UNCHANGED <<kind, held, mems, local, raw, inUse, stage>>
    BY DEF Release, fixed
  <1>5. dying \in Seq(live)
    BY DEF BackInv, HoldOK, OwnersOK, Owned, Row
  <1>2. /\ Owned(live', held, mems.objs, local, raw, Tail(dying), inUse)
        /\ Mine(held, mems.objs, local, raw, Tail(dying)) = Mine(held, mems.objs, local, raw, dying) \ {Head(dying)}
    <2>1. Owned(live, held, mems.objs, local, raw, dying, inUse)
      BY DEF BackInv, HoldOK, OwnersOK
    <2>2. PICK o, t, K, m : o = Head(dying) /\ t = Tail(dying) /\ K = live \ {o} /\ m = mems.objs
      OBVIOUS
    <2>3. Row(t, K) /\ ToSet(t) = ToSet(dying) \ {o} /\ o \in ToSet(dying)
      BY <1>1, <2>1, <2>2, TailRow DEF Owned
    <2>4. /\ Owned(K, held, m, local, raw, t, inUse)
          /\ Mine(held, m, local, raw, t) = Mine(held, m, local, raw, dying) \ {o}
      BY <2>1, <2>2, <2>3, OwnRelease
    <2> QED
      BY <1>1, <2>2, <2>4
  <1>3. OwnersOK'
    <2>1. mems \in [objs : Seq(live'), shape : Sizes]
      BY <1>2 DEF BackInv, HoldOK, OwnersOK, Owned, Row
    <2> QED
      BY <1>1, <1>2, <2>1 DEF OwnersOK
  <1>4. RowsOK'
    BY <1>1 DEF BackInv, HoldOK, RowsOK, Begun
  <1>6. /\ DOMAIN dying = 1 .. Len(dying) /\ DOMAIN dying' = 1 .. Len(dying) - 1
        /\ Len(dying) \in Nat
        /\ \A i \in 1 .. Len(dying) - 1 : dying'[i] = dying[i + 1]
    BY <1>1, <1>5
  <1>7. DyingOK'
    <2>1. CASE \A i \in DOMAIN dying : dying[i].type \in Leaf
      <3>1. \A i \in 1 .. Len(dying) - 1 : i + 1 \in DOMAIN dying
        BY <1>6
      <3>2. \A i \in DOMAIN dying' : dying'[i].type \in Leaf
        BY <1>6, <2>1, <3>1
      <3> QED
        BY <3>2 DEF DyingOK
    <2>2. CASE /\ held = <<>> /\ mems = NoMems /\ local = <<>> /\ raw = <<>>
               /\ \A i, j \in DOMAIN dying : i < j => dying[i].type \notin NeedsOf(kind, dying[j].type)
      <3>1. ASSUME NEW i \in DOMAIN dying', NEW j \in DOMAIN dying', i < j
            PROVE  dying'[i].type \notin NeedsOf(kind', dying'[j].type)
        <4>1. i + 1 \in DOMAIN dying /\ j + 1 \in DOMAIN dying /\ i + 1 < j + 1
          BY <1>6, <3>1
        <4>2. dying[i + 1].type \notin NeedsOf(kind, dying[j + 1].type)
          BY <2>2, <4>1
        <4>3. dying'[i] = dying[i + 1] /\ dying'[j] = dying[j + 1]
          BY <1>6
        <4> QED
          BY <1>1, <4>2, <4>3
      <3> QED
        BY <1>1, <2>2, <3>1 DEF DyingOK, Needs
    <2> QED
      BY <2>1, <2>2 DEF BackInv, HoldOK, DyingOK, Needs
  <1>8. Orphans' \subseteq Orphans
    <2>1. Orphans' = live' \ Mine(held, mems.objs, local, raw, Tail(dying))
      BY <1>1 DEF Orphans, Mine
    <2> QED
      BY <1>1, <1>2, <2>1, OrphansAre
  <1>9. OrphansOK'
    BY <1>1, <1>8 DEF BackInv, HoldOK, OrphansOK
  <1> QED
    BY <1>3, <1>4, <1>7, <1>9 DEF HoldOK

LEMMA DropHolds == BackInv /\ Drop => HoldOK'
  <1> SUFFICES ASSUME BackInv, Drop PROVE HoldOK'
    OBVIOUS
  <1>1. /\ dying = <<>> /\ stage[1] \in {"idle", "drop"} /\ stage'[1] = "dropped"
        /\ dying' = mems.objs \o held /\ held' = <<>> /\ mems' = NoMems
        /\ UNCHANGED <<kind, live, local, raw, inUse>>
    BY DEF Drop, fixed, Go
  <1>2. local = <<>> /\ raw = <<>> /\ inUse = {}
    BY <1>1 DEF BackInv, HoldOK, RowsOK
  <1>3. /\ Owned(live, <<>>, <<>>, local, raw, mems.objs \o held, inUse)
        /\ Mine(<<>>, <<>>, local, raw, mems.objs \o held) = Mine(held, mems.objs, local, raw, <<>>)
    BY <1>1, OwnDrop DEF BackInv, HoldOK, OwnersOK
  <1>4. OwnersOK'
    <2>1. NoMems \in [objs : Seq(live), shape : Sizes] /\ NoMems.objs = <<>>
      BY DEF NoMems, Sizes
    <2> QED
      BY <1>1, <1>3, <2>1 DEF OwnersOK
  <1>5. RowsOK'
    BY <1>1, <1>2 DEF RowsOK, NoMems, Begun, AllKinds
  <1>6. DyingOK'
    <2>1. mems.objs \in Seq(live) /\ held \in Seq(live)
      BY DEF BackInv, HoldOK, OwnersOK, Owned, Row
    <2>2. PICK m, h : m = mems.objs /\ h = held
      OBVIOUS
    <2>3. /\ m \in Seq(live) /\ h \in Seq(live) /\ dying' = m \o h
          /\ \A i \in DOMAIN m : m[i].type = "mem"
          /\ \/ h = <<>>
             \/ Len(h) = 1 /\ h[1].type \in {"context", "handle"}
             \/ Len(h) = 2 /\ h[1].type = "bmrt" /\ h[2].type = "handle"
             \/ Len(h) = 3 /\ h[1].type = "execution" /\ h[2].type = "engine" /\ h[3].type = "runtime"
      BY <1>1, <2>1, <2>2 DEF BackInv, HoldOK, RowsOK
    <2>4. /\ DOMAIN dying' = 1 .. Len(m) + Len(h) /\ Len(m) \in Nat /\ Len(h) \in 0 .. 3
          /\ \A i \in 1 .. Len(m) + Len(h) : dying'[i] = IF i <= Len(m) THEN m[i] ELSE h[i - Len(m)]
          /\ DOMAIN m = 1 .. Len(m)
      BY <2>3
    <2>5. \A i, j \in 1 .. Len(h) : i < j => h[i].type \notin NeedsOf(kind, h[j].type)
      <3> SUFFICES ASSUME NEW i \in 1 .. Len(h), NEW j \in 1 .. Len(h), i < j
                   PROVE  h[i].type \notin NeedsOf(kind, h[j].type)
        OBVIOUS
      <3>1. \/ h[j].type = "handle"
            \/ h[j].type = "engine" /\ h[i].type = "execution"
            \/ h[j].type = "runtime"
        <4>1. \/ Len(h) = 2 /\ i = 1 /\ j = 2
              \/ Len(h) = 3 /\ i = 1 /\ j = 2
              \/ Len(h) = 3 /\ j = 3
          BY <2>4
        <4> QED
          BY <2>3, <4>1
      <3> QED
        BY <3>1, NeedsFacts
    <2>6. ASSUME NEW i \in DOMAIN dying', NEW j \in DOMAIN dying', i < j
          PROVE  dying'[i].type \notin NeedsOf(kind', dying'[j].type)
      <3>1. CASE i <= Len(m)
        <4>1. dying'[i].type = "mem"
          BY <2>3, <2>4, <3>1
        <4> QED
          BY <4>1, NeedsFacts DEF Leaf
      <3>2. CASE i > Len(m)
        <4>1. i - Len(m) \in 1 .. Len(h) /\ j - Len(m) \in 1 .. Len(h) /\ i - Len(m) < j - Len(m)
          BY <2>4, <2>6, <3>2
        <4>2. dying'[i] = h[i - Len(m)] /\ dying'[j] = h[j - Len(m)]
          BY <2>4, <2>6, <3>2
        <4> QED
          BY <1>1, <2>5, <4>1, <4>2
      <3> QED
        BY <2>4, <3>1, <3>2
    <2> QED
      BY <1>1, <1>2, <2>6 DEF DyingOK, Needs
  <1>7. Orphans' = Orphans
    <2>1. Orphans' = live \ Mine(<<>>, <<>>, local, raw, mems.objs \o held)
      BY <1>1 DEF Orphans, Mine, NoMems
    <2> QED
      BY <1>1, <1>3, <2>1, OrphansAre
  <1>8. OrphansOK'
    BY <1>1, <1>7 DEF BackInv, HoldOK, OrphansOK
  <1> QED
    BY <1>4, <1>5, <1>6, <1>8 DEF HoldOK

\* A new object without an owner.
LEMMA RawHolds ==
    ASSUME BackInv, dying = <<>>, NEW type, NEW next,
           \/ type = "context" /\ next = "core_mask" /\ stage[1] = "rknn" /\ stage[2] = "init"
           \/ type = "outputs" /\ next = "copy" /\ stage[1] = "staging",
           Go(next), live' = live \cup {Fresh(type)}, raw' = <<Fresh(type)>>,
           UNCHANGED <<kind, held, mems, local, dying, inUse>>
    PROVE  HoldOK'
  <1>0. stage[1] \notin {"drop", "dropped"} /\ stage[1] \notin {"engine", "ctx", "bindings", "sync"}
    OBVIOUS
  <1>1. Fresh(type) \notin live /\ Fresh(type).type = type
    BY FreshIsNew DEF BackInv, HoldOK, OwnersOK, Owned
  <1>2. PICK f : f = Fresh(type)
    OBVIOUS
  <1>3. raw = <<>> /\ inUse = {} /\ local = <<>>
    BY DEF BackInv, HoldOK, RowsOK
  <1>4. /\ Owned(live \cup {f}, held, mems.objs, local, raw', dying, inUse)
        /\ \A x : x \in Mine(held, mems.objs, local, raw', dying) <=> x \in Mine(held, mems.objs, local, raw, dying) \/ x = f
    <2>1. Row(<<f>>, live \cup {f}) /\ ToSet(<<f>>) = {f}
      BY SingleRow
    <2>2. PICK s, K, m : s = raw' /\ K = live \cup {f} /\ m = mems.objs
      OBVIOUS
    <2>3. Row(s, K) /\ \A x : x \in ToSet(s) <=> x = f
      BY <1>2, <2>1, <2>2
    <2>4. Owned(live, held, m, local, raw, dying, inUse) /\ f \notin live
      BY <1>1, <1>2, <1>3, <2>2 DEF BackInv, HoldOK, OwnersOK
    <2>5. /\ Owned(K, held, m, local, s, dying, inUse)
          /\ \A x : x \in Mine(held, m, local, s, dying) <=> x \in Mine(held, m, local, raw, dying) \/ x = f
      BY <1>3, <2>2, <2>3, <2>4, OwnRaw
    <2> QED
      BY <2>2, <2>5
  <1>5. OwnersOK'
    <2>1. mems \in [objs : Seq(live \cup {f}), shape : Sizes]
      BY RowGrows DEF BackInv, HoldOK, OwnersOK, Owned, Row
    <2> QED
      BY <1>2, <1>4, <2>1 DEF OwnersOK
  <1>6. DyingOK'
    BY DEF DyingOK
  <1>7. Orphans' = Orphans
    <2>1. Orphans' = live' \ Mine(held', mems'.objs, local', raw', dying')
      BY DEF Orphans, Mine
    <2>2. Orphans = live \ Mine(held, mems.objs, local, raw, dying)
      BY OrphansAre
    <2> QED
      BY <1>1, <1>2, <1>4, <2>1, <2>2
  <1>8. OrphansOK'
    BY <1>0, <1>7, NoLostContext DEF BackInv, HoldOK, OrphansOK
  <1>9. Len(raw') = 1 /\ raw'[1].type = type /\ stage' = <<next, stage[2]>>
    BY <1>1 DEF Go
  <1>10. RowsOK'
    <2>1. ~Begun'
      BY <1>9 DEF Begun, AllKinds
    <2>2. type = "context" => held = <<>>
      BY DEF BackInv, HoldOK, RowsOK, Begun, AllKinds
    <2> QED
      BY <1>3, <1>9, <2>1, <2>2 DEF BackInv, HoldOK, RowsOK
  <1> QED
    BY <1>5, <1>6, <1>8, <1>10 DEF HoldOK

\* What bm_dev_request and bmrt_create return.
LEMMA KeepHolds ==
    ASSUME BackInv, dying = <<>>, NEW at, NEW type, NEW next,
           <<at, type, next>> \in {<<"sophon", "handle", "bmrt">>, <<"bmrt", "bmrt", "load">>},
           stage[1] = at, stage[2] = "init",
           Go(next), live' = live \cup {Fresh(type)}, held' = Before(Fresh(type), held),
           UNCHANGED <<kind, mems, local, raw, dying, inUse>>
    PROVE  HoldOK'
  <1>0. stage[1] \in {"sophon", "bmrt"}
    OBVIOUS
  <1>1. Fresh(type) \notin live /\ Fresh(type).type = type
    BY FreshIsNew DEF BackInv, HoldOK, OwnersOK, Owned
  <1>2. PICK f : f = Fresh(type)
    OBVIOUS
  <1>3. raw = <<>> /\ inUse = {} /\ local = <<>>
    <2>1. stage[1] = "sophon" => Begun
      BY DEF Begun, AllKinds
    <2> QED
      BY <1>0, <2>1 DEF BackInv, HoldOK, RowsOK
  <1>4. /\ Owned(live \cup {f}, held', mems.objs, local, raw, dying, inUse)
        /\ \A x : x \in Mine(held', mems.objs, local, raw, dying) <=> x \in Mine(held, mems.objs, local, raw, dying) \/ x = f
    <2>1. Owned(live, held, mems.objs, local, raw, dying, inUse) /\ f \notin live
      BY <1>1, <1>2 DEF BackInv, HoldOK, OwnersOK
    <2>2. held' = Before(f, held)
      BY <1>2
    <2>3. /\ Owned(live \cup {f}, Before(f, held), mems.objs, local, raw, dying, inUse)
          /\ \A x : x \in Mine(Before(f, held), mems.objs, local, raw, dying) <=> x \in Mine(held, mems.objs, local, raw, dying) \/ x = f
      BY <2>1, OwnFirst
    <2> QED
      BY <2>2, <2>3
  <1>5. OwnersOK'
    <2>1. mems \in [objs : Seq(live \cup {f}), shape : Sizes]
      BY RowGrows DEF BackInv, HoldOK, OwnersOK, Owned, Row
    <2> QED
      BY <1>2, <1>4, <2>1 DEF OwnersOK
  <1>6. DyingOK'
    BY DEF DyingOK
  <1>7. Orphans' = Orphans
    <2>1. Orphans' = live' \ Mine(held', mems'.objs, local', raw', dying')
      BY DEF Orphans, Mine
    <2>2. Orphans = live \ Mine(held, mems.objs, local, raw, dying)
      BY OrphansAre
    <2> QED
      BY <1>1, <1>2, <1>4, <2>1, <2>2
  <1>8. OrphansOK'
    BY <1>0, <1>7, NoLostContext DEF BackInv, HoldOK, OrphansOK
  <1>9. /\ held \in Seq(live) /\ stage' = <<next, stage[2]>> /\ ~Begun'
    BY <1>0 DEF BackInv, HoldOK, OwnersOK, Owned, Row, Go, Begun, AllKinds
  <1>10. RowsOK'
    <2>1. CASE at = "sophon"
      <3>1. held = <<>>
        BY <2>1 DEF BackInv, HoldOK, RowsOK, Begun, AllKinds
      <3>2. held' = <<f>> /\ f.type = "handle"
        BY <1>1, <1>2, <2>1, <3>1 DEF Before
      <3> QED
        BY <1>3, <1>9, <2>1, <3>2 DEF BackInv, HoldOK, RowsOK
    <2>2. CASE at = "bmrt"
      <3>1. Len(held) = 1 /\ held[1].type = "handle"
        BY <2>2 DEF BackInv, HoldOK, RowsOK
      <3>2. f.type = "bmrt" /\ held' = <<f>> \o held /\ held \in Seq(live \cup {f}) /\ <<f>> \in Seq(live \cup {f})
        BY <1>1, <1>2, <1>9, <2>2, SeqMonotonic DEF Before
      <3>3. Len(held') = 2 /\ held'[1] = f /\ held'[2] = held[1]
        <4>1. PICK s, h : s = <<f>> /\ h = held
          OBVIOUS
        <4>2. s \in Seq(live \cup {f}) /\ h \in Seq(live \cup {f}) /\ Len(s) = 1 /\ s[1] = f /\ Len(h) = 1
          BY <3>1, <3>2, <4>1
        <4>3. /\ Len(s \o h) = Len(s) + Len(h)
              /\ \A i \in 1 .. Len(s) + Len(h) : (s \o h)[i] = IF i <= Len(s) THEN s[i] ELSE h[i - Len(s)]
          BY <4>2, ConcatProperties
        <4>4. Len(s) + Len(h) = 2 /\ 2 - Len(s) = 1
          BY <4>2
        <4>5. Len(s \o h) = 2 /\ (s \o h)[1] = f /\ (s \o h)[2] = h[1]
          BY <4>2, <4>3, <4>4
        <4> QED
          BY <3>2, <4>1, <4>5
      <3> QED
        BY <1>3, <1>9, <2>2, <3>1, <3>2, <3>3 DEF BackInv, HoldOK, RowsOK
    <2> QED
      BY <1>0, <2>1, <2>2
  <1> QED
    BY <1>5, <1>6, <1>8, <1>10 DEF HoldOK

\* The context goes to its field, and the objects of TensorRT to theirs.
LEMMA FieldsHold ==
    ASSUME BackInv, dying = <<>>, inUse' = {},
           UNCHANGED <<kind, live, mems, dying>>, local' = <<>>, raw' = <<>>,
           \/ stage[1] = "core_mask" /\ held' = raw /\ stage'[1] = "count"
           \/ stage[1] = "bindings" /\ held' = Reverse(local) /\ stage'[1] = "idle"
    PROVE  HoldOK'
  <1>0. stage[1] \in {"core_mask", "bindings"}
    OBVIOUS
  <1>1. held = <<>> /\ inUse = {} /\ (stage[1] = "core_mask" => local = <<>>) /\ (stage[1] = "bindings" => raw = <<>>)
    BY <1>0 DEF BackInv, HoldOK, RowsOK
  <1>2. Owned(live, <<>>, mems.objs, local, raw, <<>>, {})
    BY <1>1 DEF BackInv, HoldOK, OwnersOK
  <1>3. /\ Owned(live, held', mems.objs, <<>>, <<>>, <<>>, {})
        /\ Mine(held', mems.objs, <<>>, <<>>, <<>>) = Mine(<<>>, mems.objs, local, raw, <<>>)
    <2>1. CASE stage[1] = "core_mask"
      BY <1>1, <1>2, <2>1, OwnAdopt
    <2>2. CASE stage[1] = "bindings"
      BY <1>1, <1>2, <2>2, OwnBound
    <2> QED
      BY <1>0, <2>1, <2>2
  <1>4. OwnersOK'
    BY <1>3 DEF OwnersOK, BackInv, HoldOK
  <1>5. DyingOK'
    BY DEF DyingOK
  <1>6. Orphans' = Orphans
    BY <1>1, <1>3 DEF Orphans, Mine
  <1>7. OrphansOK'
    BY <1>0, <1>6, NoLostContext DEF BackInv, HoldOK, OrphansOK
  <1>8. RowsOK'
    <2>1. CASE stage[1] = "core_mask"
      <3>1. Len(held') = 1 /\ held'[1].type = "context"
        BY <2>1 DEF BackInv, HoldOK, RowsOK
      <3> QED
        BY <2>1, <3>1 DEF BackInv, HoldOK, RowsOK, Begun, AllKinds
    <2>2. CASE stage[1] = "bindings"
      <3>1. /\ Len(local) = 3 /\ local[1].type = "runtime"
            /\ local[2].type = "engine" /\ local[3].type = "execution"
        BY <2>2 DEF BackInv, HoldOK, RowsOK
      <3>2. Len(held') = 3 /\ \A i \in 1 .. 3 : held'[i] = local[3 - i + 1]
        BY <1>2, <2>2, <3>1, ReverseRow DEF Owned
      <3>3. held'[1].type = "execution" /\ held'[2].type = "engine" /\ held'[3].type = "runtime"
        BY <3>1, <3>2
      <3> QED
        BY <2>2, <3>2, <3>3 DEF BackInv, HoldOK, RowsOK, Begun, AllKinds
    <2> QED
      BY <1>0, <2>1, <2>2
  <1> QED
    BY <1>4, <1>5, <1>7, <1>8 DEF HoldOK


\* io_mems are dropped before the infos are asked for again.
LEMMA MemsDieHold ==
    ASSUME BackInv, dying = <<>>, stage[1] = "count", stage'[1] = "attrs",
           dying' = mems.objs, mems' = NoMems, UNCHANGED <<kind, live, held, local, raw, inUse>>
    PROVE  HoldOK'
  <1>1. local = <<>> /\ raw = <<>> /\ inUse = {}
    BY DEF BackInv, HoldOK, RowsOK
  <1>2. Owned(live, held, mems.objs, local, raw, <<>>, inUse)
    BY DEF BackInv, HoldOK, OwnersOK
  <1>3. /\ Owned(live, held, <<>>, local, raw, mems.objs, inUse)
        /\ Mine(held, <<>>, local, raw, mems.objs) = Mine(held, mems.objs, local, raw, <<>>)
    BY <1>2, OwnMemsDie
  <1>4. NoMems \in [objs : Seq(live), shape : Sizes] /\ NoMems.objs = <<>>
    BY DEF NoMems, Sizes
  <1>5. OwnersOK'
    BY <1>3, <1>4 DEF OwnersOK
  <1>6. DyingOK'
    BY DEF BackInv, HoldOK, RowsOK, DyingOK, Leaf
  <1>7. Orphans' = Orphans
    BY <1>3, <1>4 DEF Orphans, Mine
  <1>8. OrphansOK'
    BY <1>7, NoLostContext DEF BackInv, HoldOK, OrphansOK
  <1>9. RowsOK'
    BY <1>1, <1>4 DEF BackInv, HoldOK, RowsOK, Begun, AllKinds
  <1> QED
    BY <1>5, <1>6, <1>8, <1>9 DEF HoldOK

\* The outputs are given back to the library and the run returns.
LEMMA GiveBackHolds ==
    ASSUME BackInv, dying = <<>>, stage[1] = "copy", live' = live \ ToSet(raw),
           UNCHANGED <<kind, held, mems, inUse>>,
           NEW ok \in BOOLEAN, NEW outs, NEW shape, Return(ok, outs, shape)
    PROVE  HoldOK'
  <1>1. local = <<>> /\ inUse = {}
    BY DEF BackInv, HoldOK, RowsOK
  <1>2. /\ dying' = <<>> /\ local' = <<>> /\ raw' = <<>>
    <2>1. Reverse(<<>>) = <<>>
      BY DEF Reverse
    <2> QED
      BY <1>1, <2>1 DEF Return, Answer
  <1>3. Owned(live, held, mems.objs, <<>>, raw, <<>>, {})
    BY <1>1 DEF BackInv, HoldOK, OwnersOK
  <1>4. PICK r, K : r = raw /\ K = live \ ToSet(r)
    OBVIOUS
  <1>5. /\ Owned(K, held, mems.objs, <<>>, <<>>, <<>>, {})
        /\ Mine(held, mems.objs, <<>>, <<>>, <<>>) = Mine(held, mems.objs, <<>>, r, <<>>) \ ToSet(r)
    BY <1>3, <1>4, OwnGiveBack
  <1>6. mems \in [objs : Seq(K), shape : Sizes]
    BY <1>5 DEF Owned, Row, BackInv, HoldOK, OwnersOK
  <1>7. OwnersOK'
    BY <1>1, <1>2, <1>4, <1>5, <1>6 DEF OwnersOK
  <1>8. DyingOK'
    BY <1>2 DEF DyingOK
  <1>9. Orphans' \subseteq Orphans
    <2>1. Orphans' = live' \ Mine(held, mems.objs, <<>>, <<>>, <<>>)
      BY <1>2 DEF Orphans, Mine
    <2> QED
      BY <1>1, <1>4, <1>5, <2>1, OrphansAre
  <1>10. OrphansOK'
    BY <1>9, NoLostContext DEF BackInv, HoldOK, OrphansOK
  <1>11. stage'[1] \in {"idle", "drop"}
    BY DEF Return, Answer, Go
  <1>12. RowsOK'
    BY <1>1, <1>2, <1>11 DEF BackInv, HoldOK, RowsOK, Begun, AllKinds
  <1> QED
    BY <1>7, <1>8, <1>10, <1>12 DEF HoldOK

\* The last buffer is bound: the buffers are io_mems now.
LEMMA BoundHolds ==
    ASSUME BackInv, dying = <<>>, stage[1] = "bind", stage'[1] = "zero_copy",
           live' = live \cup {Fresh("mem")}, local' = <<>>,
           NEW g, g = Append(local, Fresh("mem")), mems' = [objs |-> g, shape |-> infos.shape],
           UNCHANGED <<kind, held, raw, dying, inUse>>
    PROVE  HoldOK'
  <1>1. raw = <<>> /\ inUse = {} /\ mems = NoMems
    BY DEF BackInv, HoldOK, RowsOK
  <1>2. Fresh("mem") \notin live /\ Fresh("mem").type = "mem"
    BY FreshIsNew DEF BackInv, HoldOK, OwnersOK, Owned
  <1>3. PICK f, K : f = Fresh("mem") /\ K = live \cup {f}
    OBVIOUS
  <1>4. g = Append(local, f) /\ mems'.objs = g
    BY <1>3
  <1>5. Owned(live, held, <<>>, local, raw, <<>>, {}) /\ f \notin live
    BY <1>1, <1>2, <1>3 DEF BackInv, HoldOK, OwnersOK, NoMems
  <1>6. /\ Owned(K, held, <<>>, g, raw, <<>>, {})
        /\ Mine(held, <<>>, g, raw, <<>>) = Mine(held, <<>>, local, raw, <<>>) \cup {f}
        /\ g # <<>>
    <2>1. /\ Owned(live \cup {f}, held, <<>>, Append(local, f), raw, <<>>, {})
          /\ Mine(held, <<>>, Append(local, f), raw, <<>>) = Mine(held, <<>>, local, raw, <<>>) \cup {f}
          /\ Append(local, f) # <<>>
      BY <1>5, OwnCreate
    <2> QED
      BY <1>3, <1>4, <2>1
  <1>7. /\ Owned(K, held, g, <<>>, raw, <<>>, {})
        /\ Mine(held, g, <<>>, raw, <<>>) = Mine(held, <<>>, g, raw, <<>>)
    BY <1>6, OwnMems
  <1>8. mems' = [objs |-> g, shape |-> infos.shape] /\ live' = K /\ infos.shape \in Sizes
    BY <1>3, <1>4 DEF BackInv, FieldsOK, SomeInfos
  <1>9. OwnersOK'
    <2>1. g \in Seq(K)
      BY <1>7 DEF Owned, Row
    <2>2. mems' \in [objs : Seq(live'), shape : Sizes]
      BY <1>8, <2>1
    <2>3. Owned(live', held', mems'.objs, local', raw', dying', inUse')
      BY <1>1, <1>4, <1>7, <1>8
    <2> QED
      BY <2>2, <2>3 DEF OwnersOK
  <1>10. DyingOK'
    BY DEF DyingOK
  <1>11. Orphans' = Orphans
    <2>1. Orphans' = K \ Mine(held, g, <<>>, raw, <<>>)
      BY <1>4, <1>8 DEF Orphans, Mine
    <2>2. Orphans = live \ Mine(held, <<>>, local, raw, <<>>)
      BY <1>1, OrphansAre DEF NoMems
    <2> QED
      BY <1>3, <1>5, <1>6, <1>7, <2>1, <2>2
  <1>12. OrphansOK'
    BY <1>11, NoLostContext DEF BackInv, HoldOK, OrphansOK
  <1>13. \A i \in DOMAIN g : g[i].type = "mem"
    <2>1. local \in Seq(live) /\ \A i \in DOMAIN local : local[i].type = "mem"
      BY <1>5 DEF Owned, Row, BackInv, HoldOK, RowsOK
    <2>2. local \in Seq(K) /\ f \in K /\ f.type = "mem"
      BY <1>2, <1>3, <2>1, SeqMonotonic
    <2> QED
      BY <1>4, <2>1, <2>2, AppendProperties
  <1>14. RowsOK'
    BY <1>1, <1>6, <1>8, <1>13 DEF BackInv, HoldOK, RowsOK, Begun, AllKinds, NoMems
  <1> QED
    BY <1>9, <1>10, <1>12, <1>14 DEF HoldOK

\* A buffer cannot be made, or not be bound: those there are die.
LEMMA UnboundHolds ==
    ASSUME BackInv, dying = <<>>, stage[1] = "bind", stage'[1] = "staging",
           \/ live' = live /\ dying' = local
           \/ live' = live \cup {Fresh("mem")} /\ dying' = <<Fresh("mem")>> \o local,
           local' = <<>>, UNCHANGED <<kind, held, mems, raw, inUse>>
    PROVE  HoldOK'
  <1>1. raw = <<>> /\ inUse = {} /\ mems = NoMems
    BY DEF BackInv, HoldOK, RowsOK
  <1>2. Owned(live, held, mems.objs, local, raw, <<>>, {})
    BY <1>1 DEF BackInv, HoldOK, OwnersOK
  <1>3. local \in Seq(live) /\ \A i \in DOMAIN local : local[i].type = "mem"
    BY <1>2 DEF Owned, Row, BackInv, HoldOK, RowsOK
  <1>4. RowsOK'
    BY <1>1 DEF BackInv, HoldOK, RowsOK, Begun, AllKinds
  <1>5. CASE live' = live /\ dying' = local
    <2>1. /\ Owned(live, held, mems.objs, <<>>, raw, local, {})
          /\ Mine(held, mems.objs, <<>>, raw, local) = Mine(held, mems.objs, local, raw, <<>>)
      BY <1>2, OwnLocalsDie
    <2>2. OwnersOK'
      BY <1>1, <1>5, <2>1 DEF BackInv, HoldOK, OwnersOK
    <2>3. DyingOK'
      BY <1>3, <1>5 DEF DyingOK, Leaf
    <2>4. Orphans' = Orphans
      BY <1>5, <2>1 DEF Orphans, Mine
    <2>5. OrphansOK'
      BY <2>4, NoLostContext DEF BackInv, HoldOK, OrphansOK
    <2> QED
      BY <1>4, <2>2, <2>3, <2>5 DEF HoldOK
  <1>6. CASE live' = live \cup {Fresh("mem")} /\ dying' = <<Fresh("mem")>> \o local
    <2>1. Fresh("mem") \notin live /\ Fresh("mem").type = "mem"
      BY FreshIsNew DEF BackInv, HoldOK, OwnersOK, Owned
    <2>2. PICK f, K : f = Fresh("mem") /\ K = live \cup {f}
      OBVIOUS
    <2>3. dying' = Before(f, local) /\ live' = K
      BY <1>6, <2>2 DEF Before
    <2>4. /\ Owned(K, held, mems.objs, <<>>, raw, Before(f, local), {})
          /\ \A x : x \in Mine(held, mems.objs, <<>>, raw, Before(f, local))
                      <=> x \in Mine(held, mems.objs, local, raw, <<>>) \/ x = f
      BY <1>2, <2>1, <2>2, OwnOneMoreDies
    <2>5. mems \in [objs : Seq(K), shape : Sizes]
      BY <2>4 DEF Owned, Row, BackInv, HoldOK, OwnersOK
    <2>6. OwnersOK'
      BY <1>1, <2>3, <2>4, <2>5 DEF OwnersOK
    <2>7. DyingOK'
      <3>1. \A x \in ToSet(dying') : x.type = "mem"
        <4>1. \A x : x \in ToSet(Before(f, local)) <=> x \in ToSet(local) \/ x = f
          BY <1>2, <2>1, <2>2, FirstRow DEF Owned
        <4> QED
          BY <1>3, <2>1, <2>2, <2>3, <4>1 DEF ToSet
      <3>2. \A i \in DOMAIN dying' : dying'[i].type = "mem"
        BY <3>1 DEF ToSet
      <3> QED
        BY <3>2 DEF DyingOK, Leaf
    <2>8. Orphans' = Orphans
      <3>1. Orphans' = K \ Mine(held, mems.objs, <<>>, raw, Before(f, local))
        BY <2>3 DEF Orphans, Mine
      <3>2. Orphans = live \ Mine(held, mems.objs, local, raw, <<>>)
        BY OrphansAre
      <3> QED
        BY <2>1, <2>2, <2>4, <3>1, <3>2
    <2>9. OrphansOK'
      BY <2>8, NoLostContext DEF BackInv, HoldOK, OrphansOK
    <2> QED
      BY <1>4, <2>6, <2>7, <2>9 DEF HoldOK
  <1> QED
    BY <1>5, <1>6


\* A call that returns while the device does nothing.
LEMMA AnswerHolds ==
    ASSUME BackInv, dying = <<>>, stage[1] \notin {"drop", "dropped", "sync"},
           UNCHANGED <<kind, live, held, mems, inUse>>,
           NEW ok \in BOOLEAN, NEW outs, NEW shape, Return(ok, outs, shape),
           stage[1] = "core_mask" => ~ok
    PROVE  HoldOK'
  <1>1. inUse' = {}
    BY DEF BackInv, HoldOK, RowsOK
  <1> QED
    BY <1>1, EndHolds, ReturnEnds

LEMMA FailHolds ==
    ASSUME BackInv, dying = <<>>, stage[1] \notin {"drop", "dropped", "sync"},
           UNCHANGED <<kind, live, held, mems, inUse>>, Fail
    PROVE  HoldOK'
  BY AnswerHolds DEF Fail

\* While a call is at a place where it owns nothing yet.
LEMMA NothingYet ==
    ASSUME BackInv, stage[1] \in {"new", "idle", "rknn", "openvino", "tensorrt"}
    PROVE  local = <<>>
  BY DEF BackInv, HoldOK, RowsOK

LEMMA StartHolds == BackInv /\ (InitCall \/ Call) => HoldOK'
  <1> SUFFICES ASSUME BackInv, InitCall \/ Call PROVE HoldOK'
    OBVIOUS
  <1>1. kind \in AllKinds
    BY SizesAssumption DEF BackInv, FieldsOK, AllKinds
  <1>2. CASE InitCall
    <2>1. /\ stage[1] = "new" /\ dying = <<>>
          /\ UNCHANGED <<kind, live, held, mems, inUse>>
      BY <1>2 DEF InitCall, At, fixed
    <2>2. CASE Fail
      BY <2>1, <2>2, FailHolds
    <2>3. CASE Go(kind) /\ UNCHANGED <<local, raw, dying, done, broken>>
      <3>1. stage'[1] = kind
        BY <2>3 DEF Go
      <3> QED
        BY <1>1, <2>1, <2>3, <3>1, GoRows, NothingYet DEF AllKinds
    <2> QED
      BY <1>2, <2>2, <2>3 DEF InitCall
  <1>3. CASE Call
    <2>1. /\ stage[1] = "idle" /\ dying = <<>>
          /\ UNCHANGED <<kind, live, held, mems, local, raw, dying, inUse>>
      BY <1>3 DEF Call, At, fixed
    <2>2. stage'[1] = kind /\ stage'[2] # "init"
      BY <1>3 DEF Call, Calls
    <2> QED
      BY <1>1, <2>1, <2>2, GoRows, NothingYet DEF AllKinds
  <1> QED
    BY <1>2, <1>3

LEMMA RknnHolds == BackInv /\ Rknn => HoldOK'
  <1> SUFFICES ASSUME BackInv, Rknn PROVE HoldOK'
    OBVIOUS
  <1>1. CASE rknn_init
    <2>1. /\ stage[1] = "rknn" /\ stage[2] = "init" /\ dying = <<>> /\ UNCHANGED <<kind, held, mems, inUse>>
      BY <1>1 DEF rknn_init, Doing, At, fixed
    <2>2. CASE Fail /\ UNCHANGED live
      BY <2>1, <2>2, FailHolds
    <2>3. CASE /\ live' = live \cup {Fresh("context")} /\ raw' = <<Fresh("context")>> /\ Go("core_mask")
               /\ UNCHANGED <<local, dying, done, broken>>
      BY <2>1, <2>3, RawHolds
    <2> QED
      BY <1>1, <2>2, <2>3 DEF rknn_init
  <1>2. CASE set_core_mask
    <2>1. /\ stage[1] = "core_mask" /\ dying = <<>> /\ UNCHANGED <<kind, live, mems, inUse>>
      BY <1>2 DEF set_core_mask, At, fixed
    <2>2. CASE Fail /\ UNCHANGED <<held, native>>
      BY <2>1, <2>2, FailHolds
    <2>3. CASE /\ held' = raw /\ raw' = <<>> /\ native' = ModelShape /\ Go("count")
               /\ UNCHANGED <<local, dying, done, broken>>
      <3>1. local = <<>> /\ inUse = {}
        BY <2>1 DEF BackInv, HoldOK, RowsOK
      <3>2. stage'[1] = "count"
        BY <2>3 DEF Go
      <3> QED
        BY <2>1, <2>3, <3>1, <3>2, FieldsHold
    <2> QED
      BY <1>2, <2>2, <2>3 DEF set_core_mask
  <1>3. CASE set_input_shapes
    <2>1. /\ stage[1] = "rknn" /\ dying = <<>> /\ UNCHANGED <<kind, live, held, mems, inUse>>
      BY <1>3 DEF set_input_shapes, Doing, At, fixed
    <2>2. CASE Fail
      BY <2>1, <2>2, FailHolds
    <2>3. CASE Go("count") /\ UNCHANGED <<local, raw, dying, done, broken>>
      <3>1. stage'[1] = "count"
        BY <2>3 DEF Go
      <3> QED
        BY <2>1, <2>3, <3>1, GoRows, NothingYet DEF AllKinds
    <2> QED
      BY <1>3, <2>2, <2>3 DEF set_input_shapes
  <1>4. CASE RknnRun
    <2>1. /\ stage[1] = "rknn" /\ dying = <<>> /\ UNCHANGED <<kind, live, held, mems, inUse>>
      BY <1>4 DEF RknnRun, Doing, At, fixed
    <2>2. CASE Fail
      BY <2>1, <2>2, FailHolds
    <2>3. CASE ~Fail
      <3>1. /\ UNCHANGED <<local, raw, dying, done, broken>>
            /\ \/ mems # NoMems /\ stage'[1] = "zero_copy"
               \/ mems = NoMems /\ stage'[1] \in {"bind", "staging"}
        BY <1>4, <2>3 DEF RknnRun, Go
      <3> QED
        BY <2>1, <3>1, GoRows, NothingYet DEF AllKinds
    <2> QED
      BY <2>2, <2>3
  <1>5. CASE refresh_counts
    <2>1. /\ stage[1] = "count" /\ dying = <<>> /\ UNCHANGED <<kind, live, held, inUse>>
      BY <1>5 DEF refresh_counts, At, fixed
    <2>2. CASE Fail /\ UNCHANGED <<mems, infos, failed>>
      BY <2>1, <2>2, FailHolds
    <2>3. CASE /\ dying' = mems.objs /\ mems' = NoMems /\ failed' = FALSE /\ infos' = NoInfos /\ Go("attrs")
               /\ UNCHANGED <<local, raw, done, broken>>
      <3>1. stage'[1] = "attrs"
        BY <2>3 DEF Go
      <3> QED
        BY <2>1, <2>3, <3>1, MemsDieHold
    <2> QED
      BY <1>5, <2>2, <2>3 DEF refresh_counts
  <1>6. CASE refresh_attrs
    <2>1. /\ stage[1] = "attrs" /\ dying = <<>> /\ UNCHANGED <<kind, live, held, mems, inUse>>
      BY <1>6 DEF refresh_attrs, At, fixed
    <2>2. Fail \/ Return(TRUE, 0, native)
      BY <1>6 DEF refresh_attrs
    <2> QED
      BY <2>1, <2>2, FailHolds, AnswerHolds
  <1>7. CASE setup_zero_copy
    <2>1. /\ stage[1] = "bind" /\ dying = <<>> /\ UNCHANGED <<kind, held, raw, inUse>>
      BY <1>7 DEF setup_zero_copy, At, fixed
    <2>2. PICK got : got = Append(local, Fresh("mem"))
      OBVIOUS
    <2>3. \/ /\ live' = live \cup {Fresh("mem")} /\ local' = got
             /\ UNCHANGED <<mems, stage, dying>>
          \/ /\ live' = live \cup {Fresh("mem")} /\ local' = <<>>
             /\ mems' = [objs |-> got, shape |-> infos.shape] /\ stage'[1] = "zero_copy"
             /\ UNCHANGED dying
          \/ /\ \/ live' = live /\ dying' = local
                \/ live' = live \cup {Fresh("mem")} /\ dying' = <<Fresh("mem")>> \o local
             /\ local' = <<>> /\ stage'[1] = "staging" /\ UNCHANGED mems
      BY <1>7, <2>2 DEF setup_zero_copy, Go
    <2>4. CASE /\ live' = live \cup {Fresh("mem")} /\ local' = got
               /\ UNCHANGED <<mems, stage, dying>>
      <3>1. Go("bind")
        BY <2>1, <2>4 DEF Go, BackInv, StageOK
      <3>2. "mem" \in Leaf
        BY DEF Leaf
      <3> QED
        BY <2>1, <2>2, <2>4, <3>1, <3>2, LeafHolds
    <2>5. CASE /\ live' = live \cup {Fresh("mem")} /\ local' = <<>>
               /\ mems' = [objs |-> got, shape |-> infos.shape] /\ stage'[1] = "zero_copy"
               /\ UNCHANGED dying
      BY <2>1, <2>2, <2>5, BoundHolds
    <2>6. CASE /\ \/ live' = live /\ dying' = local
                  \/ live' = live \cup {Fresh("mem")} /\ dying' = <<Fresh("mem")>> \o local
               /\ local' = <<>> /\ stage'[1] = "staging" /\ UNCHANGED mems
      BY <2>1, <2>6, UnboundHolds
    <2> QED
      BY <2>3, <2>4, <2>5, <2>6
  <1>8. CASE run_zero_copy
    <2>1. /\ stage[1] = "zero_copy" /\ dying = <<>> /\ UNCHANGED <<kind, live, held, mems, inUse>>
      BY <1>8 DEF run_zero_copy, At, fixed
    <2>2. Fail \/ Return(TRUE, infos.outs, mems.shape)
      BY <1>8 DEF run_zero_copy
    <2> QED
      BY <2>1, <2>2, FailHolds, AnswerHolds
  <1>9. CASE staging_outputs
    <2>1. /\ stage[1] = "staging" /\ dying = <<>> /\ UNCHANGED <<kind, held, mems, inUse>>
      BY <1>9 DEF staging_outputs, At, fixed
    <2>2. CASE Fail /\ UNCHANGED live
      BY <2>1, <2>2, FailHolds
    <2>3. CASE /\ live' = live \cup {Fresh("outputs")} /\ raw' = <<Fresh("outputs")>> /\ Go("copy")
               /\ UNCHANGED <<local, dying, done, broken>>
      BY <2>1, <2>3, RawHolds
    <2> QED
      BY <1>9, <2>2, <2>3 DEF staging_outputs
  <1>10. CASE staging_copy
    <2>1. /\ stage[1] = "copy" /\ dying = <<>> /\ UNCHANGED <<kind, held, mems, inUse>>
      BY <1>10 DEF staging_copy, At, fixed
    <2>2. CASE Fail /\ UNCHANGED live
      BY <2>1, <2>2, FailHolds
    <2>3. CASE live' = live \ ToSet(raw) /\ (Return(FALSE, 0, None) \/ Return(TRUE, infos.outs, native))
      BY <2>1, <2>3, GiveBackHolds
    <2> QED
      BY <1>10, <2>2, <2>3 DEF staging_copy, Fail
  <1> QED
    BY <1>1, <1>2, <1>3, <1>4, <1>5, <1>6, <1>7, <1>8, <1>9, <1>10 DEF Rknn


LEMMA SophonHolds == BackInv /\ Sophon => HoldOK'
  <1> SUFFICES ASSUME BackInv, Sophon PROVE HoldOK'
    OBVIOUS
  <1> USE DEF Leaf
  <1>1. ASSUME NEW at, NEW type, NEW next, Keep(at, type, next),
               <<at, type, next>> \in {<<"sophon", "handle", "bmrt">>, <<"bmrt", "bmrt", "load">>}
        PROVE  HoldOK'
    <2>1. /\ stage[1] = at /\ stage[2] = "init" /\ dying = <<>> /\ UNCHANGED <<kind, mems, inUse>>
          /\ stage[1] \notin {"drop", "dropped", "sync", "core_mask"}
      BY <1>1 DEF Keep, At, fixed
    <2>2. CASE Fail /\ UNCHANGED <<live, held>>
      BY <2>1, <2>2, FailHolds
    <2>3. CASE /\ live' = live \cup {Fresh(type)} /\ held' = <<Fresh(type)>> \o held /\ Go(next)
               /\ UNCHANGED <<local, raw, dying, done, broken>>
      <3>1. held' = Before(Fresh(type), held)
        BY <2>3 DEF Before
      <3>2. live' = live \cup {Fresh(type)} /\ Go(next) /\ UNCHANGED <<local, raw, dying>>
        BY <2>3
      <3> QED
        BY <1>1, <2>1, <3>1, <3>2, KeepHolds
    <2> QED
      BY <1>1, <2>2, <2>3 DEF Keep
  <1>2. CASE bm_dev_request \/ bmrt_create
    BY <1>1, <1>2 DEF bm_dev_request, bmrt_create
  <1>3. CASE load_bmodel
    <2>1. /\ stage[1] = "load" /\ dying = <<>> /\ UNCHANGED <<kind, held, mems, inUse>>
      BY <1>3 DEF load_bmodel, At, fixed
    <2>2. CASE Fail /\ UNCHANGED live
      BY <2>1, <2>2, FailHolds
    <2>3. CASE ~(Fail /\ UNCHANGED live)
      BY <1>3, <2>1, <2>3, LeafHolds DEF load_bmodel, Create
    <2> QED
      BY <2>2, <2>3
  <1>4. CASE discover_network
    <2>1. /\ stage[1] = "discover" /\ dying = <<>> /\ UNCHANGED <<kind, live, held, mems, inUse>>
      BY <1>4 DEF discover_network, At, fixed
    <2>2. Fail \/ Return(TRUE, 0, ModelShape)
      BY <1>4 DEF discover_network
    <2> QED
      BY <2>1, <2>2, FailHolds, AnswerHolds
  <1>5. CASE SophonReshape
    <2>1. /\ stage[1] = "sophon" /\ dying = <<>> /\ UNCHANGED <<kind, live, held, mems, inUse>>
          /\ Return(TRUE, 0, arg) \/ Fail
      BY <1>5 DEF SophonReshape, Doing, At, fixed
    <2> QED
      BY <2>1, AnswerHolds, FailHolds
  <1>6. CASE SophonRun
    <2>1. /\ stage[1] = "sophon" /\ stage[2] = "run" /\ dying = <<>> /\ UNCHANGED <<kind, held, mems, inUse>>
          /\ kind = "sophon"
      BY <1>6 DEF SophonRun, Doing, At, fixed
    <2>2. CASE Fail /\ UNCHANGED live
      BY <2>1, <2>2, FailHolds
    <2>3. CASE ~(Fail /\ UNCHANGED live)
      <3>1. PICK next \in {"sophon", "alloc_out"} :
              /\ Go(next) /\ live' = live \cup {Fresh("buffer")} /\ local' = Append(local, Fresh("buffer"))
              /\ UNCHANGED <<raw, dying>>
        BY <1>6, <2>1, <2>3 DEF SophonRun, Create
      <3> QED
        BY <2>1, <3>1, LeafHolds
    <2> QED
      BY <2>2, <2>3
  <1>7. CASE alloc_outputs
    <2>1. /\ stage[1] = "alloc_out" /\ dying = <<>> /\ UNCHANGED <<kind, held, mems, inUse>>
      BY <1>7 DEF alloc_outputs, At, fixed
    <2>2. CASE Fail /\ UNCHANGED live
      BY <2>1, <2>2, FailHolds
    <2>3. CASE ~(Fail /\ UNCHANGED live)
      <3>1. PICK next \in {"alloc_out", "launch"} :
              /\ Go(next) /\ live' = live \cup {Fresh("buffer")} /\ local' = Append(local, Fresh("buffer"))
              /\ UNCHANGED <<raw, dying>>
        BY <1>7, <2>3 DEF alloc_outputs, Create
      <3> QED
        BY <2>1, <3>1, LeafHolds
    <2> QED
      BY <2>2, <2>3
  <1>8. CASE launch_tensor
    <2>1. /\ stage[1] = "launch" /\ dying = <<>> /\ UNCHANGED <<kind, live, held, mems>>
      BY <1>8 DEF launch_tensor, At, fixed
    <2>2. CASE Fail /\ UNCHANGED <<native, inUse>>
      BY <2>1, <2>2, FailHolds
    <2>3. CASE /\ inUse' = ToSet(local) /\ native' = arg /\ Go("sync")
               /\ UNCHANGED <<local, raw, dying, done, broken>>
      <3>1. stage'[1] = "sync"
        BY <2>3 DEF Go
      <3> QED
        BY <2>1, <2>3, <3>1, LaunchHolds
    <2> QED
      BY <1>8, <2>2, <2>3 DEF launch_tensor
  <1> QED
    BY <1>2, <1>3, <1>4, <1>5, <1>6, <1>7, <1>8 DEF Sophon

LEMMA SyncHolds == BackInv /\ synchronize => HoldOK'
  <1> SUFFICES ASSUME BackInv, synchronize PROVE HoldOK'
    OBVIOUS
  <1>1. /\ stage[1] = "sync" /\ dying = <<>> /\ UNCHANGED <<kind, live, held, mems>> /\ inUse' = {}
        /\ Ends(FALSE, 0, None) \/ Ends(TRUE, Outs, native)
    BY ReturnEnds, AnswerEnds DEF synchronize, At, fixed, Fail
  <1> QED
    BY <1>1, EndHolds

LEMMA TensorRtHolds == BackInv /\ TensorRt => HoldOK'
  <1> SUFFICES ASSUME BackInv, TensorRt PROVE HoldOK'
    OBVIOUS
  <1> USE DEF Leaf
  <1>1. ASSUME NEW at, NEW type, NEW next, TrtObject(at, type, next),
               <<at, type, next>> \in {<<"tensorrt", "runtime", "engine">>, <<"engine", "engine", "ctx">>,
                                       <<"ctx", "execution", "bindings">>}
        PROVE  HoldOK'
    <2>1. /\ stage[1] = at /\ stage[2] = "init" /\ dying = <<>> /\ UNCHANGED <<kind, held, mems, inUse>>
          /\ stage[1] \notin {"drop", "dropped", "sync", "core_mask"}
      BY <1>1 DEF TrtObject, At, fixed
    <2>2. CASE Fail /\ UNCHANGED live
      BY <2>1, <2>2, FailHolds
    <2>3. CASE ~(Fail /\ UNCHANGED live)
      <3>1. /\ live' = live \cup {Fresh(type)} /\ local' = Append(local, Fresh(type)) /\ Go(next)
            /\ UNCHANGED <<raw, dying>>
        BY <1>1, <2>3 DEF TrtObject, Create
      <3> QED
        BY <1>1, <2>1, <3>1, TrtHolds
    <2> QED
      BY <2>2, <2>3
  <1>2. CASE runtime_create \/ deserialize \/ create_context
    BY <1>1, <1>2 DEF runtime_create, deserialize, create_context
  <1>3. CASE inspect_bindings
    <2>1. /\ stage[1] = "bindings" /\ dying = <<>> /\ UNCHANGED <<kind, live, mems, inUse>>
      BY <1>3 DEF inspect_bindings, At, fixed
    <2>2. CASE Fail /\ UNCHANGED <<held, native>>
      BY <2>1, <2>2, FailHolds
    <2>3. CASE ~(Fail /\ UNCHANGED <<held, native>>)
      <3>1. held' = Reverse(local) /\ local' = <<>> /\ stage'[1] = "idle" /\ UNCHANGED <<raw, dying>>
        BY <1>3, <2>3 DEF inspect_bindings, Go
      <3>2. raw = <<>> /\ inUse = {}
        BY <2>1 DEF BackInv, HoldOK, RowsOK
      <3> QED
        BY <2>1, <3>1, <3>2, FieldsHold
    <2> QED
      BY <2>2, <2>3
  <1>4. CASE TrtReshape
    <2>1. /\ stage[1] = "tensorrt" /\ dying = <<>> /\ UNCHANGED <<kind, live, held, mems, inUse>>
      BY <1>4 DEF TrtReshape, Doing, At, fixed
    <2>2. CASE Fail
      BY <2>1, <2>2, FailHolds
    <2>3. CASE Go("outputs") /\ UNCHANGED <<local, raw, dying, done, broken>>
      <3>1. stage'[1] = "outputs"
        BY <2>3 DEF Go
      <3> QED
        BY <2>1, <2>3, <3>1, GoRows, NothingYet DEF AllKinds
    <2> QED
      BY <1>4, <2>2, <2>3 DEF TrtReshape
  <1>5. CASE refresh_output_infos
    <2>1. /\ stage[1] = "outputs" /\ dying = <<>> /\ UNCHANGED <<kind, live, held, mems, inUse>>
      BY <1>5 DEF refresh_output_infos, At, fixed
    <2>2. Fail \/ Return(TRUE, 0, arg)
      BY <1>5 DEF refresh_output_infos
    <2> QED
      BY <2>1, <2>2, FailHolds, AnswerHolds
  <1>6. CASE CudaStream
    <2>1. /\ stage[1] = "tensorrt" /\ dying = <<>> /\ UNCHANGED <<kind, held, mems, inUse>>
      BY <1>6 DEF CudaStream, Doing, At, fixed
    <2>2. CASE Fail /\ UNCHANGED live
      BY <2>1, <2>2, FailHolds
    <2>3. CASE ~(Fail /\ UNCHANGED live)
      BY <1>6, <2>1, <2>3, LeafHolds DEF CudaStream, Create
    <2> QED
      BY <2>2, <2>3
  <1>7. CASE set_input_shape
    <2>1. /\ stage[1] = "bind_in" /\ dying = <<>> /\ UNCHANGED <<kind, held, mems, inUse>>
      BY <1>7 DEF set_input_shape, At, fixed
    <2>2. CASE Fail /\ UNCHANGED live
      BY <2>1, <2>2, FailHolds
    <2>3. CASE ~(Fail /\ UNCHANGED live)
      <3>1. PICK next \in {"bind_in", "bind_out"} :
              /\ Go(next) /\ live' = live \cup {Fresh("buffer")} /\ local' = Append(local, Fresh("buffer"))
              /\ UNCHANGED <<raw, dying>>
        BY <1>7, <2>3 DEF set_input_shape, Create
      <3> QED
        BY <2>1, <3>1, LeafHolds
    <2> QED
      BY <2>2, <2>3
  <1>8. CASE set_tensor_address
    <2>1. /\ stage[1] = "bind_out" /\ dying = <<>> /\ UNCHANGED <<kind, held, mems, inUse>>
      BY <1>8 DEF set_tensor_address, At, fixed
    <2>2. CASE Fail /\ UNCHANGED live
      BY <2>1, <2>2, FailHolds
    <2>3. CASE ~(Fail /\ UNCHANGED live)
      <3>1. PICK next \in {"bind_out", "enqueue"} :
              /\ Go(next) /\ live' = live \cup {Fresh("buffer")} /\ local' = Append(local, Fresh("buffer"))
              /\ UNCHANGED <<raw, dying>>
        BY <1>8, <2>3 DEF set_tensor_address, Create
      <3> QED
        BY <2>1, <3>1, LeafHolds
    <2> QED
      BY <2>2, <2>3
  <1>9. CASE enqueue
    <2>1. /\ stage[1] = "enqueue" /\ dying = <<>> /\ UNCHANGED <<kind, live, held, mems>>
      BY <1>9 DEF enqueue, At, fixed
    <2>2. CASE Fail /\ UNCHANGED inUse
      BY <2>1, <2>2, FailHolds
    <2>3. CASE inUse' = ToSet(local) /\ Go("sync") /\ UNCHANGED <<local, raw, dying, done, broken>>
      <3>1. stage'[1] = "sync"
        BY <2>3 DEF Go
      <3> QED
        BY <2>1, <2>3, <3>1, LaunchHolds
    <2> QED
      BY <1>9, <2>2, <2>3 DEF enqueue
  <1> QED
    BY <1>2, <1>3, <1>4, <1>5, <1>6, <1>7, <1>8, <1>9 DEF TensorRt

LEMMA SameHolds == BackInv /\ UNCHANGED backendVars => HoldOK'
  <1> SUFFICES ASSUME BackInv, UNCHANGED backendVars PROVE HoldOK'
    OBVIOUS
  <1>1. UNCHANGED <<kind, live, held, mems, local, raw, dying, inUse, stage>>
    BY DEF backendVars
  <1>2. OwnersOK' /\ OrphansOK'
    BY <1>1 DEF BackInv, HoldOK, OwnersOK, OrphansOK, Orphans
  <1>3. RowsOK'
    BY <1>1 DEF BackInv, HoldOK, RowsOK, Begun
  <1>4. DyingOK'
    BY <1>1 DEF BackInv, HoldOK, DyingOK, Needs
  <1> QED
    BY <1>2, <1>3, <1>4 DEF HoldOK

LEMMA OpenVinoHolds == BackInv /\ OpenVINO => HoldOK'
  <1> SUFFICES ASSUME BackInv, OpenVINO PROVE HoldOK'
    OBVIOUS
  <1>1. CASE OvInit
    <2>1. /\ stage[1] = "openvino" /\ dying = <<>> /\ UNCHANGED <<kind, live, held, mems, inUse>>
      BY <1>1 DEF OvInit, Doing, At, fixed
    <2>2. Fail \/ Return(TRUE, 0, ModelShape)
      BY <1>1 DEF OvInit
    <2> QED
      BY <2>1, <2>2, FailHolds, AnswerHolds
  <1>2. CASE submit
    <2>1. /\ stage[1] = "openvino" /\ dying = <<>> /\ UNCHANGED <<kind, live, held, mems, inUse>>
      BY <1>2 DEF submit, Doing, At, fixed
    <2>2. CASE Fail \/ Return(TRUE, 0, arg)
      BY <2>1, <2>2, FailHolds, AnswerHolds
    <2>3. CASE ~(Fail \/ Return(TRUE, 0, arg))
      <3>0. Go("run_poll") /\ UNCHANGED <<local, raw, dying, done, broken>>
        BY <1>2, <2>3, Zenon DEF submit
      <3>1. stage'[1] = "run_poll" /\ UNCHANGED <<local, raw, dying>>
        BY <3>0 DEF Go
      <3> QED
        BY <2>1, <3>1, GoRows, NothingYet DEF AllKinds
    <2> QED
      BY <2>2, <2>3
  <1>3. CASE poll
    <2>1. /\ stage[1] \in {"openvino", "run_poll"} /\ dying = <<>> /\ UNCHANGED <<kind, live, held, mems, inUse>>
      BY <1>3 DEF poll, Doing, At, fixed
    <2>2. Fail \/ \E outs, shape : Ends(TRUE, outs, shape)
      BY <1>3, ReturnEnds, AnswerEnds DEF poll
    <2>3. inUse' = {}
      BY <2>1 DEF BackInv, HoldOK, RowsOK
    <2> QED
      BY <2>1, <2>2, <2>3, FailHolds, EndHolds
  <1>4. CASE cancel
    <2>1. /\ stage[1] = "openvino" /\ dying = <<>> /\ UNCHANGED <<kind, live, held, mems, inUse>>
          /\ Return(TRUE, 0, None)
      BY <1>4 DEF cancel, Doing, At, fixed
    <2> QED
      BY <2>1, AnswerHolds
  <1>5. CASE OvReshape
    <2>1. /\ stage[1] = "openvino" /\ dying = <<>> /\ UNCHANGED <<kind, live, held, mems, inUse>>
      BY <1>5 DEF OvReshape, Doing, At, fixed
    <2>2. CASE Fail
      BY <2>1, <2>2, FailHolds
    <2>3. CASE Go("compile") /\ UNCHANGED <<local, raw, dying, done, broken>>
      <3>1. stage'[1] = "compile"
        BY <2>3 DEF Go
      <3> QED
        BY <2>1, <2>3, <3>1, GoRows, NothingYet DEF AllKinds
    <2> QED
      BY <1>5, <2>2, <2>3 DEF OvReshape
  <1>6. CASE OvCompile
    <2>1. /\ stage[1] = "compile" /\ dying = <<>> /\ UNCHANGED <<kind, live, held, mems, inUse>>
      BY <1>6 DEF OvCompile, At, fixed
    <2>2. Fail \/ Return(TRUE, 0, model)
      BY <1>6 DEF OvCompile
    <2> QED
      BY <2>1, <2>2, FailHolds, AnswerHolds
  <1>7. CASE UNCHANGED backendVars
    BY <1>7, SameHolds
  <1> QED
    BY <1>1, <1>2, <1>3, <1>4, <1>5, <1>6, <1>7 DEF OpenVINO, Ended

-----------------------------------------------------------------------------
(* Where the calls are, and what they answer *)

\* Which stages a step can lead to.
LEMMA StageMoves ==
    ASSUME BackInv, kind' = kind, stage[1] \notin {"drop", "dropped"},
           \/ stage' \in {<<"idle", stage[2]>>, <<"drop", stage[2]>>}
           \/ stage' = stage
    PROVE  StageOK'
  BY DEF BackInv, StageOK, Places, AllKinds, RknnPlaces, SophonPlaces, TrtPlaces, OvPlaces

\* A call that fails has answered nothing, and a reshape leaves a mark.
LEMMA FailData ==
    ASSUME BackInv, kind' = kind, stage[1] \notin {"drop", "dropped"}, Fail
    PROVE  /\ StageOK' /\ RunsOK' /\ stage'[1] \in {"idle", "drop"} /\ broken' \in BOOLEAN
           /\ stage[2] = "init" => stage'[1] = "drop"
           /\ stage[2] = "reshape" => broken' = TRUE
           /\ stage[2] # "reshape" => broken' = broken
  <1>1. stage' \in {<<"idle", stage[2]>>, <<"drop", stage[2]>>} /\ (stage[2] = "init" => stage'[1] = "drop")
    BY DEF Fail, Return, Answer, Go
  <1>2. StageOK'
    BY <1>1, StageMoves
  <1>3. done'.ok = FALSE
    BY DEF Fail, Return, Answer
  <1>4. RunsOK'
    BY <1>3 DEF RunsOK
  <1>5. /\ stage[2] = "reshape" => broken' = TRUE
        /\ stage[2] # "reshape" => broken' = broken
    BY DEF Fail, Return, Answer
  <1>6. broken' \in BOOLEAN
    BY <1>5 DEF BackInv, FieldsOK
  <1> QED
    BY <1>1, <1>2, <1>4, <1>5, <1>6

LEMMA EndData ==
    ASSUME BackInv, kind' = kind, stage[1] \notin {"drop", "dropped"},
           NEW outs, NEW shape, Ends(TRUE, outs, shape)
    PROVE  /\ StageOK' /\ stage'[1] = "idle" /\ broken' \in BOOLEAN
           /\ stage[2] # "reshape" => broken' = broken
           /\ done'.call = stage[2] /\ done'.outs = outs /\ done'.shape = shape
  <1>1. stage' = <<"idle", stage[2]>>
    BY DEF Ends, Go
  <1>2. StageOK'
    BY <1>1, StageMoves
  <1>3. done'.call = stage[2] /\ done'.outs = outs /\ done'.shape = shape
    BY DEF Ends
  <1>4. /\ stage[2] = "reshape" => broken' = FALSE
        /\ stage[2] # "reshape" => broken' = broken
    BY DEF Ends
  <1>5. broken' \in BOOLEAN
    BY <1>4 DEF BackInv, FieldsOK
  <1> QED
    BY <1>1, <1>2, <1>3, <1>4, <1>5

LEMMA AnswerData ==
    ASSUME BackInv, kind' = kind, stage[1] \notin {"drop", "dropped"},
           NEW outs, NEW shape, Return(TRUE, outs, shape)
    PROVE  /\ StageOK' /\ stage'[1] = "idle" /\ broken' \in BOOLEAN
           /\ stage[2] # "reshape" => broken' = broken
           /\ done'.call = stage[2] /\ done'.outs = outs /\ done'.shape = shape
  BY EndData, ReturnEnds

\* A call goes on at one of its next places.
LEMMA GoData ==
    ASSUME BackInv, kind' = kind, NEW next, Go(next),
           <<stage[1], next>> \in
               {<<"new", kind>>, <<"rknn", "core_mask">>, <<"core_mask", "count">>, <<"rknn", "count">>,
                <<"rknn", "bind">>, <<"rknn", "zero_copy">>, <<"rknn", "staging">>, <<"count", "attrs">>,
                <<"bind", "bind">>, <<"bind", "zero_copy">>, <<"bind", "staging">>, <<"staging", "copy">>,
                <<"sophon", "bmrt">>, <<"bmrt", "load">>, <<"load", "discover">>, <<"sophon", "sophon">>,
                <<"sophon", "alloc_out">>, <<"alloc_out", "alloc_out">>, <<"alloc_out", "launch">>,
                <<"launch", "sync">>, <<"tensorrt", "engine">>, <<"engine", "ctx">>, <<"ctx", "bindings">>,
                <<"tensorrt", "outputs">>, <<"tensorrt", "bind_in">>, <<"bind_in", "bind_in">>,
                <<"bind_in", "bind_out">>, <<"bind_out", "bind_out">>, <<"bind_out", "enqueue">>,
                <<"enqueue", "sync">>, <<"openvino", "run_poll">>, <<"openvino", "compile">>},
           next \in {"core_mask", "bmrt", "engine"} => stage[2] = "init",
           stage[1] = "rknn" /\ next = "count" => stage[2] = "reshape",
           next \in {"outputs", "compile"} => stage[2] = "reshape",
           next \in {"bind", "zero_copy", "staging", "alloc_out", "bind_in", "run_poll"} => stage[2] = "run"
    PROVE  StageOK' /\ RunsOK' /\ stage'[1] = next /\ stage'[2] = stage[2]
  <1>1. stage' = <<next, stage[2]>>
    BY DEF Go
  <1>2. kind \in AllKinds
    BY SizesAssumption DEF BackInv, FieldsOK, AllKinds
  <1>3. StageOK'
    BY <1>1, <1>2 DEF BackInv, StageOK, Places, AllKinds, RknnPlaces, SophonPlaces, TrtPlaces, OvPlaces
  <1>4. stage'[1] # "idle"
    BY <1>1, <1>2 DEF AllKinds
  <1>5. RunsOK'
    BY <1>4 DEF RunsOK
  <1> QED
    BY <1>1, <1>3, <1>5

LEMMA InfosType ==
    ASSUME NEW i \in 0 .. Ins, NEW o \in 0 .. Outs, NEW s \in Sizes
    PROVE  Infos(i, o, s) \in SomeInfos
  BY DEF Infos, SomeInfos

LEMMA ShapesAre == ModelShape \in Sizes /\ None \in Sizes /\ Ins \in 0 .. Ins /\ Outs \in 0 .. Outs /\ 0 \in 0 .. Ins /\ 0 \in 0 .. Outs
  BY SizesAssumption DEF Sizes

\* The fields keep their types.
LEMMA FieldsStay ==
    ASSUME BackInv, kind' = kind, calls' = calls, arg' = arg, native' \in Sizes, infos' \in SomeInfos,
           failed' \in BOOLEAN, broken' \in BOOLEAN,
           stage[1] \notin {"new", "idle", "drop", "dropped"} \/ stage'[1] \in {"idle", "drop", "dropped"}
    PROVE  FieldsOK'
  BY DEF BackInv, FieldsOK

LEMMA RknnData == BackInv /\ Rknn => StageOK' /\ FieldsOK' /\ RknnOK' /\ RunsOK'
  <1> SUFFICES ASSUME BackInv, Rknn PROVE StageOK' /\ FieldsOK' /\ RknnOK' /\ RunsOK'
    OBVIOUS
  <1>0. /\ native \in Sizes /\ infos \in SomeInfos /\ failed \in BOOLEAN /\ broken \in BOOLEAN
        /\ RknnOK /\ StageOK
    BY DEF BackInv, FieldsOK
  <1>1. CASE rknn_init
    <2>1. /\ stage[1] = "rknn" /\ stage[2] = "init" /\ kind = "rknn"
          /\ UNCHANGED <<kind, infos, failed, native, arg, calls>>
      BY <1>1 DEF rknn_init, Doing, At, fixed
    <2>2. CASE Fail
      <3>1. StageOK' /\ RunsOK' /\ stage'[1] = "drop" /\ broken' \in BOOLEAN
        BY <2>1, <2>2, FailData
      <3> QED
        BY <1>0, <2>1, <3>1, FieldsStay DEF RknnOK, InCalls
    <2>3. CASE Go("core_mask") /\ UNCHANGED <<done, broken>>
      <3>1. StageOK' /\ RunsOK' /\ stage'[1] = "core_mask"
        BY <2>1, <2>3, GoData
      <3> QED
        BY <1>0, <2>1, <2>3, <3>1, FieldsStay DEF RknnOK, InCalls
    <2> QED
      BY <1>1, <2>2, <2>3 DEF rknn_init
  <1>2. CASE set_core_mask
    <2>1. /\ stage[1] = "core_mask" /\ stage[2] = "init" /\ kind = "rknn"
          /\ UNCHANGED <<kind, infos, failed, arg, calls>>
      BY <1>0, <1>2 DEF set_core_mask, At, fixed, StageOK, RknnPlaces
    <2>2. CASE Fail /\ UNCHANGED <<held, native>>
      <3>1. StageOK' /\ RunsOK' /\ stage'[1] = "drop" /\ broken' \in BOOLEAN
        BY <2>1, <2>2, FailData
      <3> QED
        BY <1>0, <2>1, <2>2, <3>1, FieldsStay DEF RknnOK, InCalls
    <2>3. CASE native' = ModelShape /\ Go("count") /\ UNCHANGED <<done, broken>>
      <3>1. StageOK' /\ RunsOK' /\ stage'[1] = "count"
        BY <2>1, <2>3, GoData
      <3> QED
        BY <1>0, <2>1, <2>3, <3>1, FieldsStay, ShapesAre DEF RknnOK, InCalls
    <2> QED
      BY <1>2, <2>2, <2>3 DEF set_core_mask
  <1>3. CASE set_input_shapes
    <2>1. /\ stage[1] = "rknn" /\ stage[2] = "reshape" /\ kind = "rknn"
          /\ UNCHANGED <<kind, infos, failed, arg, calls>> /\ arg \in Sizes
      BY <1>3 DEF set_input_shapes, Doing, At, fixed, BackInv, FieldsOK
    <2>2. CASE Fail /\ UNCHANGED native
      <3>1. StageOK' /\ RunsOK' /\ stage'[1] \in {"idle", "drop"} /\ broken' = TRUE
        BY <2>1, <2>2, FailData
      <3> QED
        BY <1>0, <2>1, <2>2, <3>1, FieldsStay DEF RknnOK, InCalls
    <2>3. CASE native' = arg /\ Go("count") /\ UNCHANGED <<done, broken>>
      <3>1. StageOK' /\ RunsOK' /\ stage'[1] = "count"
        BY <2>1, <2>3, GoData
      <3> QED
        BY <1>0, <2>1, <2>3, <3>1, FieldsStay DEF RknnOK, InCalls
    <2> QED
      BY <1>3, <2>2, <2>3 DEF set_input_shapes
  <1>4. CASE RknnRun
    <2>1. /\ stage[1] = "rknn" /\ stage[2] = "run" /\ kind = "rknn"
          /\ UNCHANGED <<kind, mems, infos, failed, native, arg, calls>>
      BY <1>4 DEF RknnRun, Doing, At, fixed
    <2>2. CASE Fail
      <3>1. StageOK' /\ RunsOK' /\ stage'[1] \in {"idle", "drop"} /\ broken' = broken
        BY <2>1, <2>2, FailData
      <3> QED
        BY <1>0, <2>1, <3>1, FieldsStay DEF RknnOK, InCalls
    <2>3. CASE ~Fail
      <3>1. PICK next \in {"zero_copy", "bind", "staging"} : Go(next) /\ UNCHANGED <<done, broken>>
        BY <1>4, <2>3 DEF RknnRun
      <3>2. StageOK' /\ RunsOK' /\ stage'[1] = next
        BY <2>1, <3>1, GoData
      <3> QED
        BY <1>0, <2>1, <3>1, <3>2, FieldsStay DEF RknnOK, InCalls
    <2> QED
      BY <2>2, <2>3
  <1>5. CASE refresh_counts
    <2>1. /\ stage[1] = "count" /\ stage[2] \in {"init", "reshape"} /\ kind = "rknn"
          /\ UNCHANGED <<kind, native, arg, calls>>
      BY <1>0, <1>5 DEF refresh_counts, At, fixed, StageOK, RknnPlaces
    <2>2. CASE Fail /\ UNCHANGED <<mems, infos, failed>>
      <3>1. /\ StageOK' /\ RunsOK' /\ stage'[1] \in {"idle", "drop"} /\ broken' \in BOOLEAN
            /\ stage'[1] = "drop" \/ broken' = TRUE
        BY <2>1, <2>2, FailData
      <3> QED
        BY <1>0, <2>1, <2>2, <3>1, FieldsStay DEF RknnOK, InCalls
    <2>3. CASE failed' = FALSE /\ infos' = NoInfos /\ Go("attrs") /\ UNCHANGED <<done, broken>>
      <3>1. StageOK' /\ RunsOK' /\ stage'[1] = "attrs"
        BY <2>1, <2>3, GoData
      <3>2. infos' \in SomeInfos
        BY <2>3, ShapesAre, InfosType DEF NoInfos
      <3> QED
        BY <1>0, <2>1, <2>3, <3>1, <3>2, FieldsStay DEF RknnOK, InCalls
    <2> QED
      BY <1>5, <2>2, <2>3 DEF refresh_counts
  <1>6. CASE refresh_attrs
    <2>1. /\ stage[1] = "attrs" /\ stage[2] \in {"init", "reshape"} /\ kind = "rknn"
          /\ UNCHANGED <<kind, mems, failed, native, arg, calls>>
      BY <1>0, <1>6 DEF refresh_attrs, At, fixed, StageOK, RknnPlaces
    <2>2. mems = NoMems
      BY <2>1 DEF BackInv, HoldOK, RowsOK
    <2>3. PICK i \in 0 .. Ins, o \in 0 .. Outs :
            /\ o > 0 => i = Ins
            /\ infos' = Infos(i, o, native)
            /\ IF o = Outs THEN Return(TRUE, 0, native) ELSE Fail
      BY <1>6 DEF refresh_attrs
    <2>4. infos' \in SomeInfos
      BY <1>0, <2>3, InfosType
    <2>5. CASE o = Outs
      <3>1. /\ StageOK' /\ stage'[1] = "idle" /\ broken' \in BOOLEAN /\ done'.call = stage[2]
        BY <2>1, <2>3, <2>5, AnswerData
      <3>2. RunsOK'
        BY <2>1, <3>1 DEF RunsOK
      <3>3. infos' = Infos(Ins, Outs, native)
        BY <2>3, <2>5, SizesAssumption
      <3> QED
        BY <1>0, <2>1, <2>2, <2>4, <3>1, <3>2, <3>3, FieldsStay DEF RknnOK
    <2>6. CASE o # Outs
      <3>1. /\ StageOK' /\ RunsOK' /\ stage'[1] \in {"idle", "drop"} /\ broken' \in BOOLEAN
            /\ stage'[1] = "drop" \/ broken' = TRUE
        BY <2>1, <2>3, <2>6, FailData
      <3> QED
        BY <1>0, <2>1, <2>4, <3>1, FieldsStay DEF RknnOK, InCalls
    <2> QED
      BY <2>5, <2>6
  <1>7. CASE setup_zero_copy
    <2>1. /\ stage[1] = "bind" /\ stage[2] = "run" /\ kind = "rknn"
          /\ UNCHANGED <<kind, infos, native, arg, done, broken, calls>>
      BY <1>0, <1>7 DEF setup_zero_copy, At, fixed, StageOK, RknnPlaces
    <2>2. PICK next \in {"bind", "zero_copy", "staging"} :
             /\ Go(next) /\ failed' \in BOOLEAN
             /\ mems' = mems \/ mems'.shape = infos.shape
      <3>1. stage = <<"bind", stage[2]>>
        BY <1>0, <2>1 DEF StageOK
      <3>2. \/ UNCHANGED <<mems, stage, failed>>
            \/ mems'.shape = infos.shape /\ Go("zero_copy") /\ failed' = failed
            \/ UNCHANGED mems /\ Go("staging") /\ failed' = TRUE
        BY <1>7 DEF setup_zero_copy
      <3>3. stage' = stage => Go("bind")
        BY <3>1 DEF Go
      <3> QED
        BY <1>0, <3>2, <3>3
    <2>3. StageOK' /\ RunsOK' /\ stage'[1] = next
      BY <2>1, <2>2, GoData
    <2>4. RknnOK'
      BY <1>0, <2>1, <2>2, <2>3 DEF RknnOK, InCalls, Infos
    <2> QED
      BY <1>0, <2>1, <2>2, <2>3, <2>4, FieldsStay
  <1>8. CASE run_zero_copy
    <2>1. /\ stage[1] = "zero_copy" /\ stage[2] = "run" /\ kind = "rknn"
          /\ UNCHANGED <<kind, mems, infos, failed, native, arg, calls>>
      BY <1>0, <1>8 DEF run_zero_copy, At, fixed, StageOK, RknnPlaces
    <2>2. CASE Fail
      <3>1. StageOK' /\ RunsOK' /\ stage'[1] \in {"idle", "drop"} /\ broken' = broken
        BY <2>1, <2>2, FailData
      <3> QED
        BY <1>0, <2>1, <3>1, FieldsStay DEF RknnOK, InCalls
    <2>3. CASE Return(TRUE, infos.outs, mems.shape)
      <3>1. /\ StageOK' /\ stage'[1] = "idle" /\ broken' = broken
            /\ done'.outs = infos.outs /\ done'.shape = mems.shape
        BY <2>1, <2>3, AnswerData
      <3>2. mems # NoMems
        BY <2>1 DEF BackInv, HoldOK, RowsOK
      <3>3. RunsOK'
        BY <1>0, <2>1, <3>1, <3>2 DEF RunsOK, RknnOK, InCalls, Infos
      <3> QED
        BY <1>0, <2>1, <3>1, <3>3, FieldsStay DEF RknnOK, InCalls
    <2> QED
      BY <1>8, <2>2, <2>3 DEF run_zero_copy
  <1>9. CASE staging_outputs
    <2>1. /\ stage[1] = "staging" /\ stage[2] = "run" /\ kind = "rknn"
          /\ UNCHANGED <<kind, mems, infos, failed, native, arg, calls>>
      BY <1>0, <1>9 DEF staging_outputs, At, fixed, StageOK, RknnPlaces
    <2>2. CASE Fail
      <3>1. StageOK' /\ RunsOK' /\ stage'[1] \in {"idle", "drop"} /\ broken' = broken
        BY <2>1, <2>2, FailData
      <3> QED
        BY <1>0, <2>1, <3>1, FieldsStay DEF RknnOK, InCalls
    <2>3. CASE Go("copy") /\ UNCHANGED <<done, broken>>
      <3>1. StageOK' /\ RunsOK' /\ stage'[1] = "copy"
        BY <2>1, <2>3, GoData
      <3> QED
        BY <1>0, <2>1, <2>3, <3>1, FieldsStay DEF RknnOK, InCalls
    <2> QED
      BY <1>9, <2>2, <2>3 DEF staging_outputs
  <1>10. CASE staging_copy
    <2>1. /\ stage[1] = "copy" /\ stage[2] = "run" /\ kind = "rknn"
          /\ UNCHANGED <<kind, mems, infos, failed, native, arg, calls>>
      BY <1>0, <1>10 DEF staging_copy, At, fixed, StageOK, RknnPlaces
    <2>2. CASE Fail
      <3>1. StageOK' /\ RunsOK' /\ stage'[1] \in {"idle", "drop"} /\ broken' = broken
        BY <2>1, <2>2, FailData
      <3> QED
        BY <1>0, <2>1, <3>1, FieldsStay DEF RknnOK, InCalls
    <2>3. CASE Return(TRUE, infos.outs, native)
      <3>1. /\ StageOK' /\ stage'[1] = "idle" /\ broken' = broken
            /\ done'.outs = infos.outs /\ done'.shape = native
        BY <2>1, <2>3, AnswerData
      <3>2. RunsOK'
        BY <1>0, <2>1, <3>1 DEF RunsOK, RknnOK, InCalls, Infos
      <3> QED
        BY <1>0, <2>1, <3>1, <3>2, FieldsStay DEF RknnOK, InCalls
    <2> QED
      BY <1>10, <2>2, <2>3 DEF staging_copy
  <1> QED
    BY <1>1, <1>2, <1>3, <1>4, <1>5, <1>6, <1>7, <1>8, <1>9, <1>10 DEF Rknn


\* A step of Sophon or TensorRT that fails, goes on, or answers what is not a run.
LEMMA OtherData ==
    ASSUME BackInv, kind # "rknn", stage[1] \notin {"new", "idle", "drop", "dropped"},
           UNCHANGED <<kind, failed, arg, calls>>, native' \in Sizes, infos' \in SomeInfos,
           \/ Fail
           \/ StageOK' /\ RunsOK' /\ broken' = broken
           \/ stage[2] \in {"init", "reshape"} /\ \E shape : Return(TRUE, 0, shape)
    PROVE  StageOK' /\ FieldsOK' /\ RknnOK' /\ RunsOK'
  <1>0. failed \in BOOLEAN /\ broken \in BOOLEAN
    BY DEF BackInv, FieldsOK
  <1>1. RknnOK'
    BY DEF RknnOK
  <1>2. CASE Fail
    <2>1. StageOK' /\ RunsOK' /\ broken' \in BOOLEAN
      BY <1>2, FailData
    <2> QED
      BY <1>0, <1>1, <2>1, FieldsStay
  <1>3. CASE StageOK' /\ RunsOK' /\ broken' = broken
    BY <1>0, <1>1, <1>3, FieldsStay
  <1>4. CASE stage[2] \in {"init", "reshape"} /\ \E shape : Return(TRUE, 0, shape)
    <2>1. StageOK' /\ broken' \in BOOLEAN /\ done'.call = stage[2]
      BY <1>4, AnswerData
    <2>2. RunsOK'
      BY <1>4, <2>1 DEF RunsOK
    <2> QED
      BY <1>0, <1>1, <2>1, <2>2, FieldsStay
  <1> QED
    BY <1>2, <1>3, <1>4

\* A step that only makes an object.
LEMMA CreateData ==
    ASSUME BackInv, NEW type, NEW next, Create(type, next), kind' = kind,
           <<stage[1], next>> \in
               {<<"load", "discover">>, <<"sophon", "sophon">>, <<"sophon", "alloc_out">>,
                <<"alloc_out", "alloc_out">>, <<"alloc_out", "launch">>, <<"tensorrt", "engine">>,
                <<"engine", "ctx">>, <<"ctx", "bindings">>, <<"tensorrt", "bind_in">>,
                <<"bind_in", "bind_in">>, <<"bind_in", "bind_out">>, <<"bind_out", "bind_out">>,
                <<"bind_out", "enqueue">>},
           next = "engine" => stage[2] = "init",
           next \in {"alloc_out", "bind_in"} => stage[2] = "run"
    PROVE  Fail \/ (StageOK' /\ RunsOK' /\ broken' = broken)
  <1>1. CASE Fail
    BY <1>1
  <1>2. CASE ~Fail
    <2>1. Go(next) /\ broken' = broken
      BY <1>2 DEF Create
    <2>2. StageOK' /\ RunsOK'
      BY <2>1, GoData
    <2> QED
      BY <2>1, <2>2
  <1> QED
    BY <1>1, <1>2

LEMMA SophonData == BackInv /\ Sophon => StageOK' /\ FieldsOK' /\ RknnOK' /\ RunsOK'
  <1> SUFFICES ASSUME BackInv, Sophon PROVE StageOK' /\ FieldsOK' /\ RknnOK' /\ RunsOK'
    OBVIOUS
  <1>0. native \in Sizes /\ infos \in SomeInfos /\ arg \in Sizes /\ StageOK
    BY DEF BackInv, FieldsOK
  <1>a. ASSUME NEW at, stage[1] = at, at \in SophonPlaces \cup {"sophon"}
        PROVE  kind # "rknn" /\ stage[1] \notin {"new", "idle", "drop", "dropped"}
    BY <1>0, <1>a DEF StageOK, SophonPlaces, AllKinds
  <1>1. ASSUME NEW at, NEW type, NEW next, Keep(at, type, next),
               <<at, next>> \in {<<"sophon", "bmrt">>, <<"bmrt", "load">>}
        PROVE  StageOK' /\ FieldsOK' /\ RknnOK' /\ RunsOK'
    <2>1. /\ stage[1] = at /\ stage[2] = "init"
          /\ UNCHANGED <<kind, infos, native, failed, arg, calls>>
      BY <1>1 DEF Keep, At, fixed
    <2>2. kind # "rknn" /\ stage[1] \notin {"new", "idle", "drop", "dropped"}
      BY <1>1, <1>a, <2>1 DEF SophonPlaces
    <2>3. CASE Fail
      BY <1>0, <2>1, <2>2, <2>3, OtherData
    <2>4. CASE Go(next) /\ UNCHANGED broken
      <3>1. StageOK' /\ RunsOK'
        BY <1>1, <2>1, <2>4, GoData
      <3> QED
        BY <1>0, <2>1, <2>2, <2>4, <3>1, OtherData
    <2> QED
      BY <1>1, <2>3, <2>4 DEF Keep
  <1>2. CASE bm_dev_request \/ bmrt_create
    BY <1>1, <1>2 DEF bm_dev_request, bmrt_create
  <1>3. CASE load_bmodel
    <2>1. stage[1] = "load" /\ UNCHANGED <<kind, infos, native, failed, arg, calls>> /\ Create("names", "discover")
      BY <1>3 DEF load_bmodel, At, fixed
    <2>2. Fail \/ (StageOK' /\ RunsOK' /\ broken' = broken)
      BY <2>1, CreateData
    <2> QED
      BY <1>0, <1>a, <2>1, <2>2, OtherData DEF SophonPlaces
  <1>4. CASE discover_network
    <2>1. /\ stage[1] = "discover" /\ stage[2] = "init" /\ UNCHANGED <<kind, failed, arg, calls>>
          /\ Fail \/ Return(TRUE, 0, ModelShape)
          /\ infos' \in {infos, Infos(Ins, Outs, ModelShape)} /\ native' \in {native, ModelShape}
      BY <1>0, <1>4 DEF discover_network, At, fixed, StageOK
    <2>2. infos' \in SomeInfos /\ native' \in Sizes
      BY <1>0, <2>1, InfosType, ShapesAre
    <2> QED
      BY <1>0, <1>a, <2>1, <2>2, OtherData DEF SophonPlaces
  <1>5. CASE SophonReshape
    <2>1. /\ stage[1] = "sophon" /\ stage[2] = "reshape" /\ UNCHANGED <<kind, native, failed, arg, calls>>
          /\ Return(TRUE, 0, arg) \/ Fail
          /\ infos' \in {infos, [infos EXCEPT !.shape = arg]}
      BY <1>5 DEF SophonReshape, Doing, At, fixed
    <2>2. infos' \in SomeInfos
      BY <1>0, <2>1 DEF SomeInfos
    <2> QED
      BY <1>0, <1>a, <2>1, <2>2, OtherData
  <1>6. CASE SophonRun
    <2>1. /\ stage[1] = "sophon" /\ stage[2] = "run" /\ UNCHANGED <<kind, infos, native, failed, arg, calls>>
          /\ Create("buffer", "sophon") \/ Create("buffer", "alloc_out")
      BY <1>6 DEF SophonRun, Doing, At, fixed
    <2>2. Fail \/ (StageOK' /\ RunsOK' /\ broken' = broken)
      BY <2>1, CreateData
    <2> QED
      BY <1>0, <1>a, <2>1, <2>2, OtherData
  <1>7. CASE alloc_outputs
    <2>1. /\ stage[1] = "alloc_out" /\ stage[2] = "run" /\ UNCHANGED <<kind, infos, native, failed, arg, calls>>
          /\ Create("buffer", "alloc_out") \/ Create("buffer", "launch")
      BY <1>0, <1>7 DEF alloc_outputs, At, fixed, StageOK
    <2>2. Fail \/ (StageOK' /\ RunsOK' /\ broken' = broken)
      BY <2>1, CreateData
    <2> QED
      BY <1>0, <1>a, <2>1, <2>2, OtherData DEF SophonPlaces
  <1>8. CASE launch_tensor
    <2>1. /\ stage[1] = "launch" /\ UNCHANGED <<kind, infos, failed, arg, calls>> /\ native' \in {native, arg}
          /\ Fail \/ (Go("sync") /\ broken' = broken)
      BY <1>8 DEF launch_tensor, At, fixed
    <2>2. Fail \/ (StageOK' /\ RunsOK' /\ broken' = broken)
      BY <2>1, GoData
    <2>3. native' \in Sizes
      BY <1>0, <2>1
    <2> QED
      BY <1>0, <1>a, <2>1, <2>2, <2>3, OtherData DEF SophonPlaces
  <1> QED
    BY <1>2, <1>3, <1>4, <1>5, <1>6, <1>7, <1>8 DEF Sophon

LEMMA SyncData == BackInv /\ synchronize => StageOK' /\ FieldsOK' /\ RknnOK' /\ RunsOK'
  <1> SUFFICES ASSUME BackInv, synchronize PROVE StageOK' /\ FieldsOK' /\ RknnOK' /\ RunsOK'
    OBVIOUS
  <1>0. native \in Sizes /\ infos \in SomeInfos /\ failed \in BOOLEAN /\ broken \in BOOLEAN
    BY DEF BackInv, FieldsOK
  <1>1. /\ stage[1] = "sync" /\ UNCHANGED <<kind, infos, native, failed, arg, calls>>
        /\ Ends(TRUE, Outs, native) \/ Fail
    BY AnswerEnds DEF synchronize, At, fixed
  <1>2. kind \in {"sophon", "tensorrt"} /\ stage[2] = "run"
    BY <1>1 DEF BackInv, StageOK
  <1>3. CASE Fail
    BY <1>0, <1>1, <1>2, <1>3, OtherData
  <1>4. CASE Ends(TRUE, Outs, native)
    <2>1. StageOK' /\ broken' = broken /\ done'.outs = Outs /\ done'.shape = native
      BY <1>1, <1>2, <1>4, EndData
    <2>2. RunsOK'
      BY <1>1, <1>2, <2>1 DEF RunsOK
    <2> QED
      BY <1>0, <1>1, <1>2, <2>1, <2>2, OtherData
  <1> QED
    BY <1>1, <1>3, <1>4

LEMMA TensorRtData == BackInv /\ TensorRt => StageOK' /\ FieldsOK' /\ RknnOK' /\ RunsOK'
  <1> SUFFICES ASSUME BackInv, TensorRt PROVE StageOK' /\ FieldsOK' /\ RknnOK' /\ RunsOK'
    OBVIOUS
  <1>0. native \in Sizes /\ infos \in SomeInfos /\ arg \in Sizes /\ StageOK
    BY DEF BackInv, FieldsOK
  <1>a. ASSUME NEW at, stage[1] = at, at \in TrtPlaces \cup {"tensorrt"}
        PROVE  kind # "rknn" /\ stage[1] \notin {"new", "idle", "drop", "dropped"}
    BY <1>0, <1>a DEF StageOK, TrtPlaces, AllKinds
  <1>1. ASSUME NEW at, NEW type, NEW next, TrtObject(at, type, next),
               <<at, next>> \in {<<"tensorrt", "engine">>, <<"engine", "ctx">>, <<"ctx", "bindings">>}
        PROVE  StageOK' /\ FieldsOK' /\ RknnOK' /\ RunsOK'
    <2>1. /\ stage[1] = at /\ stage[2] = "init" /\ Create(type, next)
          /\ UNCHANGED <<kind, infos, native, failed, arg, calls>>
      BY <1>1 DEF TrtObject, At, fixed
    <2>2. kind # "rknn" /\ stage[1] \notin {"new", "idle", "drop", "dropped"}
      BY <1>1, <1>a, <2>1 DEF TrtPlaces
    <2>3. Fail \/ (StageOK' /\ RunsOK' /\ broken' = broken)
      BY <1>1, <2>1, CreateData
    <2> QED
      BY <1>0, <2>1, <2>2, <2>3, OtherData
  <1>2. CASE runtime_create \/ deserialize \/ create_context
    BY <1>1, <1>2 DEF runtime_create, deserialize, create_context
  <1>3. CASE inspect_bindings
    <2>1. stage[1] = "bindings" /\ stage[2] = "init" /\ UNCHANGED <<kind, failed, arg, calls>>
      BY <1>0, <1>3 DEF inspect_bindings, At, fixed, StageOK
    <2>2. kind # "rknn" /\ stage[1] \notin {"new", "idle", "drop", "dropped"}
      BY <1>a, <2>1 DEF TrtPlaces
    <2>3. CASE Fail /\ UNCHANGED native /\ infos' \in {infos, [infos EXCEPT !.ins = Ins, !.shape = ModelShape]}
      <3>1. infos' \in SomeInfos
        BY <1>0, <2>3, ShapesAre DEF SomeInfos
      <3> QED
        BY <1>0, <2>1, <2>2, <2>3, <3>1, OtherData
    <2>4. CASE /\ native' = ModelShape /\ infos' = Infos(Ins, Outs, ModelShape) /\ Go("idle") /\ UNCHANGED broken
               /\ done' = [call |-> "init", ok |-> TRUE, outs |-> 0, shape |-> ModelShape,
                           room |-> ModelShape, by |-> calls]
      <3>1. infos' \in SomeInfos /\ native' \in Sizes
        BY <2>4, InfosType, ShapesAre
      <3>2. stage' = <<"idle", stage[2]>>
        BY <2>4 DEF Go
      <3>3. StageOK'
        BY <2>1, <3>2, StageMoves
      <3>4. RunsOK'
        BY <2>4 DEF RunsOK
      <3> QED
        BY <2>1, <2>2, <2>4, <3>1, <3>3, <3>4, OtherData
    <2> QED
      BY <1>3, <2>3, <2>4 DEF inspect_bindings
  <1>4. CASE TrtReshape
    <2>1. /\ stage[1] = "tensorrt" /\ stage[2] = "reshape" /\ UNCHANGED <<kind, failed, arg, calls>>
          /\ (Fail \/ (Go("outputs") /\ broken' = broken)) /\ native' \in {native, arg}
          /\ infos' \in {infos, [infos EXCEPT !.shape = arg]}
      BY <1>4 DEF TrtReshape, Doing, At, fixed
    <2>2. Fail \/ (StageOK' /\ RunsOK' /\ broken' = broken)
      BY <2>1, GoData
    <2>3. native' \in Sizes
      BY <1>0, <1>4 DEF TrtReshape
    <2>4. infos' \in SomeInfos
      BY <1>0, <2>1 DEF SomeInfos
    <2> QED
      BY <1>a, <2>1, <2>2, <2>3, <2>4, OtherData
  <1>5. CASE refresh_output_infos
    <2>1. /\ stage[1] = "outputs" /\ stage[2] = "reshape" /\ UNCHANGED <<kind, native, failed, arg, calls>>
          /\ Fail \/ Return(TRUE, 0, arg)
          /\ infos' \in {infos, [infos EXCEPT !.out = native]}
      BY <1>0, <1>5 DEF refresh_output_infos, At, fixed, StageOK
    <2>2. infos' \in SomeInfos
      BY <1>0, <2>1 DEF SomeInfos
    <2> QED
      BY <1>0, <1>a, <2>1, <2>2, OtherData DEF TrtPlaces
  <1>6. CASE CudaStream
    <2>1. /\ stage[1] = "tensorrt" /\ stage[2] = "run" /\ UNCHANGED <<kind, infos, native, failed, arg, calls>>
          /\ Create("stream", "bind_in")
      BY <1>6 DEF CudaStream, Doing, At, fixed
    <2>2. Fail \/ (StageOK' /\ RunsOK' /\ broken' = broken)
      BY <2>1, CreateData
    <2> QED
      BY <1>0, <1>a, <2>1, <2>2, OtherData
  <1>7. CASE set_input_shape
    <2>1. /\ stage[1] = "bind_in" /\ stage[2] = "run" /\ UNCHANGED <<kind, infos, failed, arg, calls>>
          /\ native' \in {native, arg}
          /\ Fail \/ Create("buffer", "bind_in") \/ Create("buffer", "bind_out")
      BY <1>0, <1>7 DEF set_input_shape, At, fixed, StageOK
    <2>2. Fail \/ (StageOK' /\ RunsOK' /\ broken' = broken)
      BY <2>1, CreateData
    <2>3. native' \in Sizes
      BY <1>0, <2>1
    <2> QED
      BY <1>0, <1>a, <2>1, <2>2, <2>3, OtherData DEF TrtPlaces
  <1>8. CASE set_tensor_address
    <2>1. /\ stage[1] = "bind_out" /\ stage[2] = "run" /\ UNCHANGED <<kind, infos, native, failed, arg, calls>>
          /\ Create("buffer", "bind_out") \/ Create("buffer", "enqueue")
      BY <1>0, <1>8 DEF set_tensor_address, At, fixed, StageOK
    <2>2. Fail \/ (StageOK' /\ RunsOK' /\ broken' = broken)
      BY <2>1, CreateData
    <2> QED
      BY <1>0, <1>a, <2>1, <2>2, OtherData DEF TrtPlaces
  <1>9. CASE enqueue
    <2>1. /\ stage[1] = "enqueue" /\ UNCHANGED <<kind, infos, native, failed, arg, calls>>
          /\ Fail \/ (Go("sync") /\ broken' = broken)
      BY <1>9 DEF enqueue, At, fixed
    <2>2. Fail \/ (StageOK' /\ RunsOK' /\ broken' = broken)
      BY <2>1, GoData
    <2> QED
      BY <1>0, <1>a, <2>1, <2>2, OtherData DEF TrtPlaces
  <1> QED
    BY <1>2, <1>3, <1>4, <1>5, <1>6, <1>7, <1>8, <1>9 DEF TensorRt


LEMMA StartData == BackInv /\ (InitCall \/ Call \/ Drop) => StageOK' /\ FieldsOK' /\ RknnOK' /\ RunsOK'
  <1> SUFFICES ASSUME BackInv, InitCall \/ Call \/ Drop PROVE StageOK' /\ FieldsOK' /\ RknnOK' /\ RunsOK'
    OBVIOUS
  <1>0. /\ native \in Sizes /\ infos \in SomeInfos /\ failed \in BOOLEAN /\ broken \in BOOLEAN
        /\ RknnOK /\ StageOK /\ kind \in Kinds /\ kind \in AllKinds /\ calls \in 0 .. MaxCalls
    BY SizesAssumption DEF BackInv, FieldsOK, AllKinds
  <1>1. CASE InitCall
    <2>1. /\ stage[1] = "new" /\ stage[2] = "init" /\ arg' = ModelShape
          /\ UNCHANGED <<kind, infos, failed, native, calls>>
          /\ Fail \/ (Go(kind) /\ UNCHANGED <<done, broken>>)
      BY <1>0, <1>1 DEF InitCall, At, fixed, StageOK
    <2>2. StageOK' /\ RunsOK' /\ broken' \in BOOLEAN /\ stage'[1] \in {"drop", kind} /\ stage'[2] = "init"
      <3>1. CASE Fail
        <4>1. stage'[2] = "init"
          BY <2>1, <3>1 DEF Fail, Return, Answer, Go
        <4> QED
          BY <2>1, <3>1, <4>1, FailData
      <3>2. CASE Go(kind) /\ UNCHANGED <<done, broken>>
        BY <1>0, <2>1, <3>2, GoData DEF AllKinds
      <3> QED
        BY <2>1, <3>1, <3>2
    <2>3. FieldsOK'
      BY <1>0, <2>1, <2>2, SizesAssumption, ShapesAre DEF FieldsOK
    <2>4. RknnOK'
      BY <1>0, <2>2 DEF RknnOK, InCalls, AllKinds
    <2> QED
      BY <2>2, <2>3, <2>4
  <1>2. CASE Call
    <2>1. PICK c \in Calls, s \in Shapes : stage' = <<kind, c>> /\ arg' = s
      BY <1>2 DEF Call
    <2>2. /\ stage[1] = "idle" /\ calls' = calls + 1 /\ calls < MaxCalls
          /\ UNCHANGED <<kind, mems, infos, failed, native, done, broken>>
      BY <1>2 DEF Call, At, fixed
    <2>3. c \in CallNames /\ c # "init"
      BY DEF Calls, CallNames
    <2>4. StageOK'
      BY <1>0, <2>1, <2>2, <2>3 DEF StageOK, Places, AllKinds, RknnPlaces, SophonPlaces, TrtPlaces, OvPlaces
    <2>5. FieldsOK'
      BY <1>0, <2>1, <2>2, SizesAssumption DEF FieldsOK, Sizes
    <2>6. RknnOK'
      BY <1>0, <2>2 DEF RknnOK, InCalls
    <2>7. RunsOK'
      BY <1>0, <2>1 DEF RunsOK, AllKinds
    <2> QED
      BY <2>4, <2>5, <2>6, <2>7
  <1>3. CASE Drop
    <2>1. /\ stage[1] \in {"idle", "drop"} /\ stage' = <<"dropped", stage[2]>>
          /\ UNCHANGED <<kind, infos, failed, native, arg, done, broken, calls>>
      BY <1>3 DEF Drop, Go, fixed
    <2>2. StageOK'
      BY <1>0, <2>1 DEF StageOK, Places, AllKinds, RknnPlaces, SophonPlaces, TrtPlaces, OvPlaces
    <2>3. FieldsOK'
      BY <1>0, <2>1, FieldsStay
    <2>4. RknnOK' /\ RunsOK'
      BY <1>0, <2>1 DEF RknnOK, RunsOK, InCalls, AllKinds
    <2> QED
      BY <2>2, <2>3, <2>4
  <1> QED
    BY <1>1, <1>2, <1>3

\* A step that leaves the data of the calls alone.
LEMMA SameData ==
    ASSUME BackInv, UNCHANGED <<kind, mems, infos, failed, native, stage, arg, done, broken, calls>>
    PROVE  StageOK' /\ FieldsOK' /\ RknnOK' /\ RunsOK'
  <1>1. StageOK' /\ FieldsOK'
    BY DEF BackInv, StageOK, FieldsOK
  <1>2. RknnOK' /\ RunsOK'
    BY DEF BackInv, RknnOK, RunsOK, InCalls
  <1> QED
    BY <1>1, <1>2
-----------------------------------------------------------------------------
(* The requests of OpenVINO *)

LEMMA BackendPool == BackInv /\ BackendNext /\ UNCHANGED poolVars /\ StageOK' => PoolOK'
  <1> SUFFICES ASSUME BackInv, BackendNext, UNCHANGED poolVars, StageOK' PROVE PoolOK'
    OBVIOUS
  <1>0. UNCHANGED <<free, flight, model>> /\ PoolOK /\ StageOK /\ kind \in AllKinds
    BY SizesAssumption DEF poolVars, BackInv, FieldsOK, AllKinds
  <1>1. kind' = kind
    BY DEF BackendNext, Release, InitCall, Call, Drop, Rknn, rknn_init, set_core_mask, set_input_shapes, RknnRun,
           refresh_counts, refresh_attrs, setup_zero_copy, run_zero_copy, staging_outputs, staging_copy,
           Sophon, bm_dev_request, bmrt_create, Keep, load_bmodel, discover_network, SophonReshape, SophonRun,
           alloc_outputs, launch_tensor, synchronize, TensorRt, runtime_create, deserialize, create_context,
           TrtObject, inspect_bindings, TrtReshape, refresh_output_infos, CudaStream, set_input_shape,
           set_tensor_address, enqueue, fixed
  <1>2. CASE kind # "openvino"
    <2>1. free = <<>> /\ flight = <<>>
      BY <1>0, <1>2 DEF PoolOK
    <2>2. stage'[1] # "compile"
      BY <1>1, <1>2 DEF StageOK, OvPlaces
    <2> QED
      BY <1>0, <1>1, <1>2, <2>1, <2>2 DEF PoolOK
  <1>3. CASE kind = "openvino"
    <2>1. Release \/ InitCall \/ Call \/ Drop
      <3>1. ~Rknn
        BY <1>0, <1>3 DEF Rknn, rknn_init, set_core_mask, set_input_shapes, RknnRun,
           refresh_counts, refresh_attrs, setup_zero_copy, run_zero_copy, staging_outputs, staging_copy,
           At, StageOK, RknnPlaces
      <3>2. ~Sophon /\ ~synchronize
        BY <1>0, <1>3 DEF Sophon, bm_dev_request, bmrt_create, Keep, load_bmodel, discover_network,
           SophonReshape, SophonRun, alloc_outputs, launch_tensor, synchronize, At, StageOK, SophonPlaces, AllKinds
      <3>3. ~TensorRt
        BY <1>0, <1>3 DEF TensorRt, runtime_create, deserialize, create_context, TrtObject, inspect_bindings,
           TrtReshape, refresh_output_infos, CudaStream, set_input_shape, set_tensor_address, enqueue,
           At, StageOK, TrtPlaces, AllKinds
      <3> QED
        BY <3>1, <3>2, <3>3 DEF BackendNext
    <2>2. CASE Release
      <3>1. UNCHANGED <<infos, native, stage, broken>>
        BY <2>2 DEF Release
      <3> QED
        BY <1>0, <1>1, <3>1 DEF PoolOK, Begun, InCalls
    <2>3. CASE InitCall
      <3>1. stage[1] = "new" /\ stage'[1] \in {"idle", "drop", "openvino"} /\ stage'[2] = stage[2] /\ stage[2] = "init"
        BY <1>0, <1>3, <2>3 DEF InitCall, At, Fail, Return, Answer, Go, StageOK
      <3>2. free = <<>> /\ flight = <<>>
        BY <1>0, <3>1 DEF PoolOK, Begun
      <3>3. stage'[1] # "idle"
        BY <1>3, <2>3, <3>1 DEF InitCall, Fail, Return, Answer, Go
      <3> QED
        BY <1>0, <1>1, <1>3, <3>1, <3>2, <3>3 DEF PoolOK, InCalls
    <2>4. CASE Call
      <3>1. /\ stage[1] = "idle" /\ stage'[1] = "openvino" /\ stage'[2] # "init"
            /\ UNCHANGED <<infos, native, broken>>
        BY <1>3, <2>4 DEF Call, Calls, At
      <3> QED
        BY <1>0, <1>1, <1>3, <3>1 DEF PoolOK, Begun, InCalls
    <2>5. CASE Drop
      <3>1. stage'[1] = "dropped" /\ UNCHANGED <<infos, native, broken>>
        BY <2>5 DEF Drop, Go
      <3> QED
        BY <1>0, <1>1, <1>3, <3>1 DEF PoolOK, Begun, InCalls, AllKinds
    <2> QED
      BY <2>1, <2>2, <2>3, <2>4, <2>5
  <1> QED
    BY <1>2, <1>3


LEMMA CopiesAre ==
    ASSUME NEW n \in Nat, NEW s \in Sizes
    PROVE  /\ Copies(n, s) \in Seq(Sizes) /\ Len(Copies(n, s)) = n
           /\ \A i \in DOMAIN Copies(n, s) : Copies(n, s)[i] = s
           /\ <<>> \o Copies(n, s) = Copies(n, s)
  <1>1. Copies(n, s) \in Seq(Sizes) /\ Len(Copies(n, s)) = n
    BY DEF Copies
  <1>2. \A i \in DOMAIN Copies(n, s) : Copies(n, s)[i] = s
    BY DEF Copies
  <1> QED
    BY <1>1, <1>2, ConcatEmptySeq

LEMMA FrontIs ==
    ASSUME NEW S, NEW s \in Seq(S), s # <<>>
    PROVE  /\ Front(s) \in Seq(S) /\ Len(Front(s)) = Len(s) - 1
           /\ \A i \in DOMAIN Front(s) : i \in DOMAIN s /\ Front(s)[i] = s[i]
           /\ Len(s) \in DOMAIN s /\ Last(s) = s[Len(s)]
  <1>0. Len(s) \in Nat \ {0} /\ DOMAIN s = 1 .. Len(s)
    BY EmptySeq
  <1>1. Front(s) = SubSeq(s, 1, Len(s) - 1)
    BY DEF Front
  <1>2. /\ SubSeq(s, 1, Len(s) - 1) \in Seq(S) /\ Len(SubSeq(s, 1, Len(s) - 1)) = Len(s) - 1
        /\ \A i \in 1 .. Len(s) - 1 : SubSeq(s, 1, Len(s) - 1)[i] = s[i]
    BY <1>0
  <1>3. DOMAIN SubSeq(s, 1, Len(s) - 1) = 1 .. Len(s) - 1
    BY <1>2
  <1> QED
    BY <1>0, <1>1, <1>2, <1>3 DEF Last

LEMMA RemoveAtIs ==
    ASSUME NEW S, NEW s \in Seq(S), NEW k \in 1 .. Len(s)
    PROVE  /\ RemoveAt(s, k) \in Seq(S) /\ Len(RemoveAt(s, k)) = Len(s) - 1
           /\ \A i \in DOMAIN RemoveAt(s, k) : \E j \in DOMAIN s : RemoveAt(s, k)[i] = s[j]
           /\ \A j \in DOMAIN s : j # k => \E i \in DOMAIN RemoveAt(s, k) : RemoveAt(s, k)[i] = s[j]
  <1>0. Len(s) \in Nat /\ DOMAIN s = 1 .. Len(s)
    OBVIOUS
  <1>1. PICK a, b : a = SubSeq(s, 1, k - 1) /\ b = SubSeq(s, k + 1, Len(s))
    OBVIOUS
  <1>2. /\ a \in Seq(S) /\ Len(a) = k - 1 /\ \A i \in 1 .. k - 1 : a[i] = s[i]
    BY <1>0, <1>1
  <1>3. /\ b \in Seq(S) /\ Len(b) = Len(s) - k /\ \A i \in 1 .. Len(s) - k : b[i] = s[k + i]
    <2>1. PICK m, n : m = k + 1 /\ n = Len(s)
      OBVIOUS
    <2>2. m \in Int /\ n \in Int /\ b = SubSeq(s, m, n) /\ \A i \in m .. n : s[i] \in S
      BY <1>0, <1>1, <2>1
    <2>3. /\ b \in Seq(S) /\ Len(b) = (IF m <= n THEN n - m + 1 ELSE 0)
          /\ \A i \in 1 .. n - m + 1 : b[i] = s[m + i - 1]
      BY <2>2, SubSeqProperties
    <2>4. (IF m <= n THEN n - m + 1 ELSE 0) = Len(s) - k /\ n - m + 1 = Len(s) - k
      <3>1. k \in Int /\ Len(s) \in Int /\ k <= Len(s)
        BY <1>0
      <3>2. n - m + 1 = Len(s) - k
        BY <2>1, <3>1
      <3>3. ~(m <= n) => Len(s) - k = 0
        BY <2>1, <3>1
      <3> QED
        BY <3>2, <3>3
    <2>5. \A i \in 1 .. Len(s) - k : m + i - 1 = k + i
      BY <1>0, <2>1
    <2> QED
      BY <2>3, <2>4, <2>5
  <1>4. RemoveAt(s, k) = a \o b
    BY <1>1 DEF RemoveAt
  <1>5. /\ a \o b \in Seq(S) /\ Len(a \o b) = Len(a) + Len(b)
        /\ \A i \in 1 .. Len(a) + Len(b) : (a \o b)[i] = IF i <= Len(a) THEN a[i] ELSE b[i - Len(a)]
    BY <1>2, <1>3, ConcatProperties
  <1>6. Len(a) + Len(b) = Len(s) - 1
    BY <1>0, <1>2, <1>3
  <1>7. ASSUME NEW i \in 1 .. Len(s) - 1 PROVE \E j \in DOMAIN s : (a \o b)[i] = s[j]
    <2>1. CASE i <= Len(a)
      <3>1. i \in 1 .. k - 1 /\ i \in DOMAIN s
        BY <1>0, <1>2, <2>1
      <3>2. (a \o b)[i] = s[i]
        BY <1>2, <1>5, <1>6, <2>1, <3>1
      <3> QED
        BY <3>1, <3>2
    <2>2. CASE ~(i <= Len(a))
      <3>1. i - Len(a) \in 1 .. Len(s) - k /\ k + (i - Len(a)) \in DOMAIN s
        BY <1>0, <1>2, <2>2
      <3>2. (a \o b)[i] = b[i - Len(a)]
        BY <1>5, <1>6, <2>2
      <3>3. (a \o b)[i] = s[k + (i - Len(a))]
        BY <1>3, <3>1, <3>2
      <3> QED
        BY <3>1, <3>3
    <2> QED
      BY <2>1, <2>2
  <1>8. DOMAIN (a \o b) = 1 .. Len(s) - 1
    BY <1>5, <1>6
  <1>9. ASSUME NEW j \in 1 .. Len(s), j # k PROVE \E i \in 1 .. Len(s) - 1 : (a \o b)[i] = s[j]
    <2>1. CASE j < k
      <3>1. j \in 1 .. k - 1 /\ j \in 1 .. Len(s) - 1 /\ j <= Len(a)
        BY <1>0, <1>2, <2>1
      <3>2. (a \o b)[j] = s[j]
        BY <1>2, <1>5, <1>6, <3>1
      <3> QED
        BY <3>1, <3>2
    <2>2. CASE j > k
      <3>1. PICK i : i = j - 1
        OBVIOUS
      <3>2. i \in 1 .. Len(s) - 1 /\ ~(i <= Len(a)) /\ i - Len(a) = j - k /\ j - k \in 1 .. Len(s) - k /\ k + (j - k) = j
        BY <1>0, <1>2, <1>9, <2>2, <3>1
      <3>3. (a \o b)[i] = b[i - Len(a)]
        BY <1>5, <1>6, <3>2
      <3>4. (a \o b)[i] = s[j]
        BY <1>3, <3>2, <3>3
      <3> QED
        BY <3>2, <3>4
    <2>3. j < k \/ j > k
      BY <1>0, <1>9
    <2> QED
      BY <2>1, <2>2, <2>3
  <1> QED
    BY <1>0, <1>4, <1>5, <1>6, <1>7, <1>8, <1>9


Request == [by : Nat, shape : Sizes, state : {"busy", "ended"}]

\* What the pool keeps when a call is over, or goes on.
LEMMA PoolStays ==
    ASSUME BackInv, kind = "openvino", kind' = kind, model' \in Sizes,
           free' \in Seq(Sizes), flight' \in Seq(Request), Len(free') + Len(flight') <= MaxRequests,
           stage'[1] \in {"idle", "drop", "run_poll"},
           stage'[1] # "drop" /\ broken' # TRUE => infos'.shape = native' /\ \A i \in DOMAIN free' : free'[i] = native',
           \A i \in DOMAIN flight' : flight'[i].shape = infos'.shape, broken' \in BOOLEAN
    PROVE  PoolOK'
  <1>1. ~Begun' /\ stage'[1] # "compile"
    BY DEF Begun, AllKinds
  <1>2. stage'[1] = "drop" => ~InCalls({"idle", "run_poll"})'
    BY DEF InCalls
  <1>3. flight' \in Seq([by : Nat, shape : Sizes, state : {"busy", "ended"}])
    BY DEF Request
  <1> QED
    BY <1>1, <1>2, <1>3 DEF PoolOK

LEMMA SubmitData == BackInv /\ submit => StageOK' /\ FieldsOK' /\ RknnOK' /\ RunsOK' /\ PoolOK'
  <1> SUFFICES ASSUME BackInv, submit PROVE StageOK' /\ FieldsOK' /\ RknnOK' /\ RunsOK' /\ PoolOK'
    OBVIOUS
  <1>1. /\ kind = "openvino" /\ stage[1] = "openvino" /\ stage[2] \in {"submit", "run"}
        /\ UNCHANGED <<kind, infos, native, failed, arg, calls, model>>
    BY DEF submit, Doing, At, fixed
  <1>2. /\ native \in Sizes /\ infos \in SomeInfos /\ arg \in Sizes /\ broken \in BOOLEAN
        /\ calls \in Nat /\ model \in Sizes
    BY SizesAssumption DEF BackInv, FieldsOK, PoolOK
  <1>3. /\ free \in Seq(Sizes) /\ flight \in Seq(Request) /\ Len(free) + Len(flight) <= MaxRequests
        /\ broken # TRUE => infos.shape = native /\ \A i \in DOMAIN free : free[i] = native
        /\ \A i \in DOMAIN flight : flight[i].shape = infos.shape
    BY <1>1, <1>2 DEF BackInv, PoolOK, InCalls, Request
  <1>4. \/ Fail
        \/ stage[2] = "submit" /\ Return(TRUE, 0, arg)
        \/ stage[2] = "run" /\ Go("run_poll") /\ broken' = broken
    BY <1>1, Zenon DEF submit
  <1>5. /\ StageOK' /\ RunsOK' /\ broken' = broken /\ stage'[1] \in {"idle", "drop", "run_poll"}
    <2>1. CASE Fail
      BY <1>1, <2>1, FailData
    <2>2. CASE stage[2] = "submit" /\ Return(TRUE, 0, arg)
      <3>1. StageOK' /\ stage'[1] = "idle" /\ broken' = broken /\ done'.call = "submit"
        BY <1>1, <2>2, AnswerData
      <3>2. RunsOK'
        BY <3>1 DEF RunsOK
      <3> QED
        BY <3>1, <3>2
    <2>3. CASE stage[2] = "run" /\ Go("run_poll") /\ broken' = broken
      BY <1>1, <2>3, GoData
    <2> QED
      BY <1>4, <2>1, <2>2, <2>3
  <1>6. StageOK' /\ FieldsOK' /\ RknnOK' /\ RunsOK'
    BY <1>1, <1>2, <1>5, OtherData
  <1>7. \/ free' = free
        \/ free # <<>> /\ free' = Front(free)
        \/ free = <<>> /\ free' = <<>> /\ Len(flight) < MaxRequests
    <2>1. CASE free' = free
      BY <2>1
    <2>2. CASE free' # free
      <3>1. PICK r \in take_free_request : free' = r.rest
        BY <2>2, Zenon DEF submit
      <3> QED
        BY <3>1 DEF take_free_request
    <2> QED
      BY <2>1, <2>2
  <1>8. /\ free' \in Seq(Sizes) /\ Len(free') <= Len(free)
        /\ \A i \in DOMAIN free' : i \in DOMAIN free /\ free'[i] = free[i]
    <2>1. CASE free' = free
      BY <1>3, <2>1
    <2>2. CASE free # <<>> /\ free' = Front(free)
      <3>1. Front(free) \in Seq(Sizes) /\ Len(Front(free)) = Len(free) - 1
            /\ \A i \in DOMAIN Front(free) : i \in DOMAIN free /\ Front(free)[i] = free[i]
        BY <1>3, <2>2, FrontIs
      <3> QED
        BY <1>3, <2>2, <3>1
    <2>3. CASE free = <<>> /\ free' = <<>>
      BY <1>3, <2>3
    <2> QED
      BY <1>7, <2>1, <2>2, <2>3
  <1>9. \/ flight' = flight
        \/ /\ \/ free # <<>> /\ free' = Front(free)
              \/ free' = <<>> /\ Len(flight) < MaxRequests
           /\ \E r \in Request : r.shape = infos.shape /\ flight' = Append(flight, r)
    <2>1. CASE flight' = flight
      BY <2>1
    <2>2. CASE flight' # flight
      <3>1. PICK r \in take_free_request :
              /\ fill_input_tensors /\ free' = r.rest
              /\ flight' = Append(flight, [by |-> calls, shape |-> arg, state |-> "busy"])
        BY <2>2 DEF submit
      <3>2. PICK q : q = [by |-> calls, shape |-> arg, state |-> "busy"]
        OBVIOUS
      <3>3. q \in Request /\ q.shape = infos.shape /\ flight' = Append(flight, q)
        BY <1>2, <3>1, <3>2 DEF Request, fill_input_tensors
      <3>4. \/ free # <<>> /\ free' = Front(free)
            \/ free' = <<>> /\ Len(flight) < MaxRequests
        BY <3>1 DEF take_free_request
      <3> QED
        BY <3>3, <3>4
    <2> QED
      BY <2>1, <2>2
  <1>10. /\ flight' \in Seq(Request) /\ Len(free') + Len(flight') <= MaxRequests
         /\ \A i \in DOMAIN flight' : flight'[i].shape = infos.shape
    <2>0. MaxRequests \in Nat /\ Len(free) \in Nat /\ Len(flight) \in Nat /\ Len(free') \in Nat
      BY <1>3, <1>8, MaxRequestsAssumption
    <2>1. CASE flight' = flight
      BY <1>3, <1>8, <2>0, <2>1
    <2>2. CASE flight' # flight
      <3>1. PICK r \in Request : r.shape = infos.shape /\ flight' = Append(flight, r)
        BY <1>9, <2>2
      <3>2. /\ flight' \in Seq(Request) /\ Len(flight') = Len(flight) + 1
            /\ DOMAIN flight' = 1 .. Len(flight) + 1 /\ DOMAIN flight = 1 .. Len(flight)
            /\ \A i \in 1 .. Len(flight) : flight'[i] = flight[i]
            /\ flight'[Len(flight) + 1] = r
        BY <1>3, <3>1, AppendProperties
      <3>3. \A i \in DOMAIN flight' : flight'[i].shape = infos.shape
        BY <1>3, <2>0, <3>1, <3>2
      <3>4. Len(free') + Len(flight') <= MaxRequests
        <4>1. CASE free # <<>> /\ free' = Front(free)
          <5>1. Len(free') = Len(free) - 1
            BY <1>3, <4>1, FrontIs
          <5> QED
            BY <1>3, <2>0, <3>2, <5>1
        <4>2. CASE free' = <<>> /\ Len(flight) < MaxRequests
          BY <2>0, <3>2, <4>2
        <4> QED
          BY <1>9, <2>2, <4>1, <4>2
      <3> QED
        BY <3>2, <3>3, <3>4
    <2> QED
      BY <2>1, <2>2
  <1>11. PoolOK'
    <2>1. broken' # TRUE => infos'.shape = native' /\ \A i \in DOMAIN free' : free'[i] = native'
      BY <1>1, <1>3, <1>5, <1>8
    <2> QED
      BY <1>1, <1>2, <1>5, <1>8, <1>10, <2>1, PoolStays
  <1> QED
    BY <1>6, <1>11

\* A non-empty set of natural numbers has a least element.
LEMMA LeastNumber ==
  ASSUME NEW T \in SUBSET Nat, T # {}
  PROVE  \E m \in T : \A k \in T : m <= k
  <1> DEFINE R == OpToRel(<, Nat)
  <1>1. ASSUME NEW x \in Nat, NEW y \in Nat, x < y PROVE <<x, y>> \in R
    BY <1>1, Zenon DEF OpToRel
  <1>2. IsWellFoundedOn(R, Nat)
    BY NatLessThanWellFounded, Zenon
  <1> HIDE DEF R
  <1>3. PICK m \in T : \A k \in T : ~(<<k, m>> \in R)
    BY <1>2, WFMin
  <1>4. ASSUME NEW k \in T PROVE m <= k
    <2>1. k \in Nat /\ m \in Nat /\ <<k, m>> \notin R
      BY <1>3
    <2>2. ~(k < m)
      BY <1>1, <2>1
    <2> QED BY <2>1, <2>2
  <1> QED BY <1>4

LEMMA PollData == BackInv /\ poll => StageOK' /\ FieldsOK' /\ RknnOK' /\ RunsOK' /\ PoolOK'
  <1> SUFFICES ASSUME BackInv, poll PROVE StageOK' /\ FieldsOK' /\ RknnOK' /\ RunsOK' /\ PoolOK'
    OBVIOUS
  <1>1. /\ kind = "openvino" /\ stage[1] \in {"openvino", "run_poll"} /\ stage[2] \in {"poll", "run"}
        /\ UNCHANGED <<kind, infos, native, failed, arg, calls, model>>
    BY DEF poll, Doing, At, fixed, BackInv, StageOK
  <1>2. /\ native \in Sizes /\ infos \in SomeInfos /\ broken \in BOOLEAN /\ model \in Sizes
    BY DEF BackInv, FieldsOK, PoolOK
  <1>3. /\ free \in Seq(Sizes) /\ flight \in Seq(Request) /\ Len(free) + Len(flight) <= MaxRequests
        /\ broken # TRUE => infos.shape = native /\ \A i \in DOMAIN free : free[i] = native
        /\ \A i \in DOMAIN flight : flight[i].shape = infos.shape
    BY <1>1, <1>2 DEF BackInv, PoolOK, InCalls, Request
  <1>a. MaxRequests \in Nat /\ Len(free) \in Nat /\ Len(flight) \in Nat
    BY <1>3, MaxRequestsAssumption
  <1>4. CASE Return(TRUE, 0, None) /\ UNCHANGED <<free, flight>> /\ stage[2] = "poll"
    <2>1. StageOK' /\ stage'[1] = "idle" /\ broken' = broken /\ done'.outs = 0 /\ done'.call = "poll"
      BY <1>1, <1>4, AnswerData
    <2>2. RunsOK'
      BY <2>1 DEF RunsOK
    <2>3. StageOK' /\ FieldsOK' /\ RknnOK' /\ RunsOK'
      BY <1>1, <1>2, <2>1, <2>2, OtherData
    <2>4. PoolOK'
      BY <1>1, <1>2, <1>3, <1>4, <2>1, PoolStays
    <2> QED
      BY <2>3, <2>4
  <1>5. CASE ~(Return(TRUE, 0, None) /\ UNCHANGED <<free, flight>> /\ stage[2] = "poll")
    <2>1. PICK k \in DOMAIN flight :
             /\ flight' = RemoveAt(flight, k)
             /\ \/ free' = Append(free, flight[k].shape) /\ Fail
                \/ Fail /\ UNCHANGED free
                \/ /\ copy_output_tensors(flight[k])
                   /\ free' = Append(free, flight[k].shape)
                   /\ Answer(TRUE, infos.outs, flight[k].shape, flight[k].shape, flight[k].by)
      <3>1. PICK over : over = {i \in DOMAIN flight : flight[i].state # "busy"}
        OBVIOUS
      <3>a. over # {}
        BY <1>5, <3>1, Zenon DEF poll
      <3>2. over # {} /\ over \subseteq 1 .. Len(flight)
        BY <1>3, <3>1, <3>a
      <3>3. \E i \in over : \A j \in over : i <= j
        BY <1>a, <3>2, LeastNumber
      <3>4. PICK k : k = CHOOSE i \in over : \A j \in over : i <= j
        OBVIOUS
      <3>5. k \in over
        BY <3>3, <3>4
      <3>6. /\ flight' = RemoveAt(flight, k)
            /\ \/ free' = Append(free, flight[k].shape) /\ Fail
               \/ Fail /\ UNCHANGED free
               \/ /\ copy_output_tensors(flight[k])
                  /\ free' = Append(free, flight[k].shape)
                  /\ Answer(TRUE, infos.outs, flight[k].shape, flight[k].shape, flight[k].by)
        BY <1>5, <3>1, <3>2, <3>4 DEF poll
      <3> QED
        BY <3>1, <3>5, <3>6
    <2>2. k \in 1 .. Len(flight) /\ flight[k].shape = infos.shape /\ infos.shape \in Sizes
      BY <1>2, <1>3 DEF SomeInfos
    <2>3. /\ RemoveAt(flight, k) \in Seq(Request) /\ Len(RemoveAt(flight, k)) = Len(flight) - 1
          /\ \A i \in DOMAIN RemoveAt(flight, k) : \E j \in DOMAIN flight : RemoveAt(flight, k)[i] = flight[j]
      BY <1>3, <2>2, RemoveAtIs
    <2>4. /\ flight' \in Seq(Request) /\ Len(flight') = Len(flight) - 1
          /\ \A i \in DOMAIN flight' : flight'[i].shape = infos'.shape
      BY <1>1, <1>3, <2>1, <2>3
    <2>5. free' = free \/ free' = Append(free, infos.shape)
      BY <2>1, <2>2
    <2>6. free' \in Seq(Sizes) /\ Len(free') <= Len(free) + 1 /\ Len(free') \in Nat
      <3>1. CASE free' = free
        BY <1>3, <1>a, <3>1
      <3>2. CASE free' = Append(free, infos.shape)
        BY <1>3, <1>a, <2>2, <3>2
      <3> QED
        BY <2>5, <3>1, <3>2
    <2>a. ASSUME broken # TRUE PROVE \A i \in DOMAIN free' : free'[i] = native
      <3>0. infos.shape = native /\ \A i \in DOMAIN free : free[i] = native
        BY <1>3, <2>a
      <3>1. CASE free' = free
        BY <3>0, <3>1
      <3>2. CASE free' = Append(free, infos.shape)
        <4>1. /\ DOMAIN free' = 1 .. Len(free) + 1 /\ DOMAIN free = 1 .. Len(free)
              /\ \A i \in 1 .. Len(free) : free'[i] = free[i]
              /\ free'[Len(free) + 1] = infos.shape
          BY <1>3, <2>2, <3>2, AppendProperties
        <4> QED
          BY <1>a, <3>0, <4>1
      <3> QED
        BY <2>5, <3>1, <3>2
    <2>7. Len(free') + Len(flight') <= MaxRequests
      BY <1>3, <1>a, <2>4, <2>6
    <2>8. StageOK' /\ RunsOK' /\ broken' = broken /\ stage'[1] \in {"idle", "drop"}
      <3>1. CASE Fail
        BY <1>1, <3>1, FailData
      <3>2. CASE copy_output_tensors(flight[k]) /\ Ends(TRUE, infos.outs, flight[k].shape)
        <4>1. /\ StageOK' /\ stage'[1] = "idle" /\ broken' = broken
              /\ done'.outs = infos.outs /\ done'.shape = flight[k].shape
          BY <1>1, <3>2, EndData
        <4>2. infos.outs = Outs
          BY <3>2 DEF copy_output_tensors
        <4>3. RunsOK'
          BY <1>1, <2>2, <4>1, <4>2 DEF RunsOK
        <4> QED
          BY <4>1, <4>3
      <3> QED
        BY <2>1, <3>1, <3>2, AnswerEnds
    <2>9. StageOK' /\ FieldsOK' /\ RknnOK' /\ RunsOK'
      BY <1>1, <1>2, <2>8, OtherData
    <2>10. PoolOK'
      <3>1. stage'[1] # "drop" /\ broken' # TRUE => infos'.shape = native' /\ \A i \in DOMAIN free' : free'[i] = native'
        BY <1>1, <1>3, <2>a, <2>8
      <3> QED
        BY <1>1, <1>2, <2>4, <2>6, <2>7, <2>8, <3>1, PoolStays
    <2> QED
      BY <2>9, <2>10
  <1> QED
    BY <1>4, <1>5


LEMMA CompileData == BackInv /\ (OvInit \/ OvCompile) => StageOK' /\ FieldsOK' /\ RknnOK' /\ RunsOK' /\ PoolOK'
  <1> SUFFICES ASSUME BackInv, OvInit \/ OvCompile
               PROVE  StageOK' /\ FieldsOK' /\ RknnOK' /\ RunsOK' /\ PoolOK'
    OBVIOUS
  <1>0. /\ native \in Sizes /\ infos \in SomeInfos /\ broken \in BOOLEAN /\ StageOK /\ MaxRequests \in Nat
        /\ model \in Sizes /\ free \in Seq(Sizes) /\ MaxRequests - 1 \in Nat
    BY MaxRequestsAssumption DEF BackInv, FieldsOK, PoolOK
  <1>1. PICK shape \in Sizes :
           /\ kind = "openvino" /\ stage[1] \in {"openvino", "compile"} /\ stage[2] \in {"init", "reshape"}
           /\ free = <<>> /\ flight = <<>>
           /\ UNCHANGED <<kind, failed, arg, calls, flight>> /\ model' \in Sizes
           /\ \/ /\ Return(TRUE, 0, shape) /\ native' = shape /\ infos' = Infos(Ins, Outs, shape)
                 /\ free' = Copies(MaxRequests, shape)
              \/ /\ Fail /\ native' \in {native, shape}
                 /\ infos' \in {infos, [infos EXCEPT !.shape = shape]}
                 /\ \E n \in 0 .. MaxRequests : free' = Copies(n, shape)
    <2>1. CASE OvInit
      <3>1. /\ kind = "openvino" /\ stage[1] = "openvino" /\ stage[2] = "init"
            /\ UNCHANGED <<kind, failed, arg, calls, flight>>
        BY <2>1 DEF OvInit, Doing, At, fixed
      <3>2. free = <<>> /\ flight = <<>>
        BY <3>1 DEF BackInv, PoolOK, Begun, AllKinds
      <3>3. CASE /\ free' = Copies(MaxRequests, ModelShape) /\ model' = ModelShape /\ native' = ModelShape
                 /\ infos' = Infos(Ins, Outs, ModelShape) /\ Return(TRUE, 0, ModelShape)
        BY <3>1, <3>2, <3>3, ShapesAre
      <3>4. CASE /\ \E n \in 0..MaxRequests - 1 : free' = Copies(n, ModelShape)
                 /\ Fail /\ UNCHANGED <<model, native, infos>>
        <4>1. PICK n \in 0..MaxRequests - 1 : free' = Copies(n, ModelShape)
          BY <3>4
        <4>2. n \in 0 .. MaxRequests
          BY <1>0
        <4> QED
          BY <1>0, <3>1, <3>2, <3>4, <4>1, <4>2, ShapesAre
      <3> QED
        BY <2>1, <3>3, <3>4 DEF OvInit
    <2>2. CASE OvCompile
      <3>1. /\ stage[1] = "compile" /\ UNCHANGED <<kind, failed, arg, calls, flight, model>>
        BY <2>2 DEF OvCompile, At, fixed
      <3>2. free = <<>> /\ flight = <<>> /\ kind = "openvino" /\ stage[2] = "reshape"
        BY <3>1 DEF BackInv, PoolOK, StageOK, OvPlaces
      <3>a. ASSUME NEW n \in Nat PROVE free \o Copies(n, model) = Copies(n, model)
        BY <1>0, <3>2, CopiesAre
      <3>3. CASE free' = free \o Copies(MaxRequests, model) /\ native' = model
                 /\ infos' = Infos(Ins, Outs, model) /\ Return(TRUE, 0, model)
        <4>1. free' = Copies(MaxRequests, model)
          BY <1>0, <3>3, <3>a
        <4> QED
          BY <1>0, <3>1, <3>2, <3>3, <4>1
      <3>4. CASE free' = free \o Copies(MaxRequests, model) /\ native' = model
                 /\ infos' \in {infos, [infos EXCEPT !.shape = model]} /\ Fail
        <4>1. MaxRequests \in 0 .. MaxRequests /\ free' = Copies(MaxRequests, model)
          BY <1>0, <3>4, <3>a
        <4> QED
          BY <1>0, <3>1, <3>2, <3>4, <4>1
      <3>5. CASE /\ \E n \in 0..MaxRequests - 1 : free' = free \o Copies(n, model)
                 /\ Fail /\ UNCHANGED <<native, infos>>
        <4>1. PICK n \in 0..MaxRequests - 1 : free' = free \o Copies(n, model)
          BY <3>5
        <4>2. n \in 0 .. MaxRequests /\ n \in Nat
          BY <1>0
        <4>3. free' = Copies(n, model)
          BY <4>1, <4>2, <3>a
        <4> QED
          BY <1>0, <3>1, <3>2, <3>5, <4>2, <4>3
      <3> QED
        BY <2>2, <3>3, <3>4, <3>5 DEF OvCompile
    <2> QED
      BY <2>1, <2>2
  <1>2. /\ free' \in Seq(Sizes) /\ Len(free') <= MaxRequests /\ Len(free') \in Nat
        /\ \A i \in DOMAIN free' : free'[i] = shape
    <2>0. MaxRequests \in 0 .. MaxRequests
      BY <1>0
    <2>1. PICK n \in 0 .. MaxRequests : free' = Copies(n, shape)
      BY <1>1, <2>0
    <2>2. n \in Nat /\ n <= MaxRequests
      BY <1>0
    <2> QED
      BY <2>1, <2>2, CopiesAre
  <1>3. /\ flight' = <<>> /\ flight' \in Seq(Request) /\ Len(flight') = 0
        /\ \A i \in DOMAIN flight' : flight'[i].shape = infos'.shape
    BY <1>1
  <1>4. Len(free') + Len(flight') <= MaxRequests
    BY <1>0, <1>2, <1>3
  <1>5. native' \in Sizes /\ infos' \in SomeInfos
    <2>1. infos' \in {infos, [infos EXCEPT !.shape = shape], Infos(Ins, Outs, shape)}
      BY <1>1
    <2>2. [infos EXCEPT !.shape = shape] \in SomeInfos
      BY <1>0 DEF SomeInfos
    <2>3. Infos(Ins, Outs, shape) \in SomeInfos
      BY InfosType, ShapesAre
    <2> QED
      BY <1>0, <1>1, <2>1, <2>2, <2>3
  <1>6. StageOK' /\ FieldsOK' /\ RknnOK' /\ RunsOK'
    BY <1>0, <1>1, <1>5, OtherData
  <1>7. CASE Fail
    <2>1. stage'[1] \in {"idle", "drop"} /\ broken' \in BOOLEAN /\ (stage'[1] = "drop" \/ broken' = TRUE)
      BY <1>1, <1>7, FailData
    <2> QED
      BY <1>1, <1>2, <1>3, <1>4, <1>6, <2>1, PoolStays
  <1>8. CASE Return(TRUE, 0, shape) /\ native' = shape /\ infos' = Infos(Ins, Outs, shape)
    <2>1. stage'[1] = "idle" /\ broken' \in BOOLEAN
      BY <1>1, <1>8, AnswerData
    <2>2. infos'.shape = native'
      BY <1>8 DEF Infos
    <2> QED
      BY <1>1, <1>2, <1>3, <1>4, <1>6, <1>8, <2>1, <2>2, PoolStays
  <1> QED
    BY <1>1, <1>7, <1>8

LEMMA CancelData == BackInv /\ cancel => StageOK' /\ FieldsOK' /\ RknnOK' /\ RunsOK' /\ PoolOK'
  <1> SUFFICES ASSUME BackInv, cancel PROVE StageOK' /\ FieldsOK' /\ RknnOK' /\ RunsOK' /\ PoolOK'
    OBVIOUS
  <1>1. /\ kind = "openvino" /\ stage[1] = "openvino" /\ stage[2] = "cancel" /\ flight' = <<>>
        /\ UNCHANGED <<kind, infos, native, failed, arg, calls, free, model>> /\ Return(TRUE, 0, None)
    BY DEF cancel, Doing, At, fixed
  <1>2. /\ native \in Sizes /\ infos \in SomeInfos /\ broken \in BOOLEAN /\ model \in Sizes
    BY DEF BackInv, FieldsOK, PoolOK
  <1>3. /\ free \in Seq(Sizes) /\ flight \in Seq(Request) /\ Len(free) + Len(flight) <= MaxRequests
        /\ broken # TRUE => infos.shape = native /\ \A i \in DOMAIN free : free[i] = native
    BY <1>1, <1>2 DEF BackInv, PoolOK, InCalls, Request
  <1>4. StageOK' /\ stage'[1] = "idle" /\ broken' = broken /\ done'.call = "cancel"
    BY <1>1, AnswerData
  <1>5. RunsOK'
    BY <1>4 DEF RunsOK
  <1>6. StageOK' /\ FieldsOK' /\ RknnOK' /\ RunsOK'
    BY <1>1, <1>2, <1>4, <1>5, OtherData
  <1>a. Len(free) \in Nat /\ Len(flight) \in Nat /\ MaxRequests \in Nat
    BY <1>3, MaxRequestsAssumption
  <1>b. Len(flight') = 0 /\ DOMAIN flight' = {} /\ flight' \in Seq(Request)
    BY <1>1
  <1>7. /\ flight' \in Seq(Request) /\ Len(free') + Len(flight') <= MaxRequests
        /\ \A i \in DOMAIN flight' : flight'[i].shape = infos'.shape
    BY <1>1, <1>3, <1>a, <1>b
  <1>8. PoolOK'
    BY <1>1, <1>2, <1>3, <1>4, <1>7, PoolStays
  <1> QED
    BY <1>6, <1>8

LEMMA ReshapeData == BackInv /\ OvReshape => StageOK' /\ FieldsOK' /\ RknnOK' /\ RunsOK' /\ PoolOK'
  <1> SUFFICES ASSUME BackInv, OvReshape PROVE StageOK' /\ FieldsOK' /\ RknnOK' /\ RunsOK' /\ PoolOK'
    OBVIOUS
  <1>1. /\ kind = "openvino" /\ stage[1] = "openvino" /\ stage[2] = "reshape"
        /\ UNCHANGED <<kind, infos, native, failed, arg, calls, flight>>
    BY DEF OvReshape, Doing, At, fixed
  <1>2. /\ native \in Sizes /\ infos \in SomeInfos /\ broken \in BOOLEAN /\ model \in Sizes /\ arg \in Shapes
        /\ arg \in Sizes
    BY <1>1 DEF BackInv, FieldsOK, PoolOK, Sizes
  <1>3. /\ free \in Seq(Sizes) /\ flight \in Seq(Request) /\ Len(free) + Len(flight) <= MaxRequests
        /\ \A i \in DOMAIN flight : flight[i].shape = infos.shape
    BY <1>1, <1>2 DEF BackInv, PoolOK, Request
  <1>4. CASE Fail /\ UNCHANGED <<free, model>>
    <2>1. stage'[1] \in {"idle", "drop"} /\ broken' = TRUE
      BY <1>1, <1>4, FailData
    <2>2. StageOK' /\ FieldsOK' /\ RknnOK' /\ RunsOK'
      BY <1>1, <1>2, <1>4, OtherData
    <2>3. PoolOK'
      BY <1>1, <1>2, <1>3, <1>4, <2>1, PoolStays
    <2> QED
      BY <2>2, <2>3
  <1>5. CASE flight = <<>> /\ model' = arg /\ free' = <<>> /\ Go("compile") /\ UNCHANGED broken
    <2>1. StageOK' /\ RunsOK' /\ stage'[1] = "compile"
      BY <1>1, <1>5, GoData
    <2>2. StageOK' /\ FieldsOK' /\ RknnOK' /\ RunsOK'
      BY <1>1, <1>2, <1>5, <2>1, OtherData
    <2>3. PoolOK'
      BY <1>1, <1>2, <1>5, <2>1, MaxRequestsAssumption DEF PoolOK, InCalls, Begun, AllKinds
    <2> QED
      BY <2>2, <2>3
  <1> QED
    BY <1>4, <1>5 DEF OvReshape

LEMMA EndedPool == BackInv /\ Ended => PoolOK'
  <1> SUFFICES ASSUME BackInv, Ended PROVE PoolOK'
    OBVIOUS
  <1>1. PICK k \in DOMAIN flight : flight[k].state = "busy" /\ flight' = [flight EXCEPT ![k].state = "ended"]
    BY DEF Ended
  <1>2. UNCHANGED <<kind, infos, native, stage, broken, free, model>>
    BY DEF Ended, backendVars
  <1>3. flight \in Seq(Request) /\ PoolOK /\ flight # <<>>
    BY <1>1 DEF BackInv, PoolOK, Request
  <1>4. /\ flight' \in Seq(Request) /\ Len(flight') = Len(flight)
        /\ \A i \in DOMAIN flight' : i \in DOMAIN flight /\ flight'[i].shape = flight[i].shape
    <2>a. PICK q \in Request : q = flight[k]
      BY <1>1, <1>3
    <2>1. PICK r : r = [q EXCEPT !.state = "ended"]
      OBVIOUS
    <2>b. r \in Request /\ r.shape = q.shape
      BY <2>1 DEF Request
    <2>2. r \in Request /\ r.shape = flight[k].shape
      BY <2>a, <2>b
    <2>3. flight' = [flight EXCEPT ![k] = r]
      BY <1>1, <2>1, <2>a
    <2>4. flight' \in Seq(Request) /\ Len(flight') = Len(flight) /\ DOMAIN flight' = DOMAIN flight
      BY <1>1, <1>3, <2>2, <2>3, ExceptSeq
    <2>5. \A i \in DOMAIN flight : flight'[i].shape = flight[i].shape
      BY <2>2, <2>3
    <2> QED
      BY <2>4, <2>5
  <1> QED
    BY <1>2, <1>3, <1>4 DEF PoolOK, Begun, InCalls, Request

-----------------------------------------------------------------------------
(* The memory of the outputs, and whose they are *)

\* A step that answers nothing, and one that answers the call under way with
\* outputs of the size they say.
Quiet == done' = done /\ calls' = calls /\ (stage'[1] # "idle" \/ stage' = stage)
Says == /\ done'.room = done'.shape /\ done'.by = calls /\ done'.call = stage[2]
        /\ calls' = calls /\ stage'[1] \in {"idle", "drop"} /\ stage'[2] = stage[2]
        /\ stage'[1] = "idle" => stage[2] # "init" \/ done'.ok = TRUE

LEMMA ReturnSays ==
    ASSUME NEW ok \in BOOLEAN, NEW outs, NEW shape, Return(ok, outs, shape), calls' = calls
    PROVE  Says /\ done'.ok = ok /\ done'.outs = outs
  BY DEF Return, Answer, Says, Go

LEMMA FailSays ==
    ASSUME Fail, calls' = calls
    PROVE  Says /\ done'.ok = FALSE /\ done'.outs = 0
  BY ReturnSays DEF Fail

LEMMA GoQuiet ==
    ASSUME NEW next, Go(next), next # "idle", done' = done, calls' = calls
    PROVE  Quiet /\ stage'[1] = next /\ stage'[2] = stage[2]
  BY DEF Quiet, Go

LEMMA RknnSays == BackInv /\ Rknn => kind' = kind /\ kind = "rknn" /\ (Quiet \/ Says)
  <1> SUFFICES ASSUME BackInv, Rknn PROVE kind' = kind /\ kind = "rknn" /\ (Quiet \/ Says)
    OBVIOUS
  <1>1. kind' = kind /\ calls' = calls
    BY DEF Rknn, rknn_init, set_core_mask, set_input_shapes, RknnRun,
           refresh_counts, refresh_attrs, setup_zero_copy, run_zero_copy, staging_outputs, staging_copy, fixed
  <1>2. kind = "rknn"
    BY DEF BackInv, StageOK, RknnPlaces, Rknn, rknn_init, set_core_mask, set_input_shapes, RknnRun,
           refresh_counts, refresh_attrs, setup_zero_copy, run_zero_copy, staging_outputs, staging_copy, At
  <1>3. CASE Fail
    BY <1>1, <1>2, <1>3, FailSays
  <1>4. CASE ~Fail /\ (rknn_init \/ set_core_mask \/ set_input_shapes)
    <2>1. \E next \in {"core_mask", "count"} : Go(next) /\ done' = done
      BY <1>4 DEF rknn_init, set_core_mask, set_input_shapes
    <2> QED
      BY <1>1, <1>2, <2>1, GoQuiet
  <1>5. CASE ~Fail /\ (RknnRun \/ refresh_counts \/ staging_outputs)
    <2>1. \E next \in {"zero_copy", "bind", "staging", "attrs", "copy"} : Go(next) /\ done' = done
      BY <1>5 DEF RknnRun, refresh_counts, staging_outputs
    <2> QED
      BY <1>1, <1>2, <2>1, GoQuiet
  <1>6. CASE setup_zero_copy
    <2>1. stage[1] = "bind" /\ done' = done /\ (stage' = stage \/ \E next \in {"zero_copy", "staging"} : Go(next))
      BY <1>6 DEF setup_zero_copy, At
    <2>2. CASE stage' = stage
      BY <1>1, <1>2, <2>1, <2>2 DEF Quiet
    <2> QED
      BY <1>1, <1>2, <2>1, <2>2, GoQuiet
  <1>7. CASE ~Fail /\ (refresh_attrs \/ run_zero_copy \/ staging_copy)
    <2>1. \E outs, shape : Return(TRUE, outs, shape)
      BY <1>7 DEF refresh_attrs, run_zero_copy, staging_copy
    <2> QED
      BY <1>1, <1>2, <2>1, ReturnSays
  <1> QED
    BY <1>3, <1>4, <1>5, <1>6, <1>7 DEF Rknn

\* A step of Sophon or TensorRT but the synchronisation answers no run.
NoRun == Says /\ done'.outs = 0

\* Where Sophon's calls are when its infos are those of the model.
LEMMA SophonAt ==
    ASSUME BackInv, RoomOK, kind = "sophon", stage[2] # "init", stage[1] \notin {"drop", "dropped"}
    PROVE  infos.out = ModelShape
  <1>1. stage[1] \in {"idle", "sophon", "alloc_out", "launch", "sync"}
    BY DEF BackInv, StageOK, Places, AllKinds, RknnPlaces, SophonPlaces, TrtPlaces, OvPlaces
  <1> QED
    BY <1>1 DEF RoomOK, InCalls

LEMMA SophonRoom == BackInv /\ RoomOK /\ Sophon => RoomOK' /\ kind' = kind /\ kind = "sophon" /\ (Quiet \/ Says)
  <1> SUFFICES ASSUME BackInv, RoomOK, Sophon
               PROVE  RoomOK' /\ kind' = kind /\ kind = "sophon" /\ (Quiet \/ Says)
    OBVIOUS
  <1>1. kind' = kind /\ calls' = calls /\ kind = "sophon"
    BY DEF BackInv, StageOK, SophonPlaces, AllKinds, Sophon, bm_dev_request, bmrt_create, Keep, load_bmodel, discover_network,
           SophonReshape, SophonRun, alloc_outputs, launch_tensor, At, fixed
  <1>0. infos.out = ModelShape \/ stage[2] = "init" \/ stage[1] \in {"drop", "dropped"}
    BY <1>1, SophonAt
  \* The call ends without the answer of a run.
  <1>2. ASSUME NoRun, stage[1] \notin {"drop", "dropped"},
               infos'.out = infos.out \/ infos'.out = ModelShape,
               stage[2] = "init" /\ done'.ok = TRUE => infos'.out = ModelShape
        PROVE  RoomOK' /\ kind' = kind /\ kind = "sophon" /\ (Quiet \/ Says)
    <2>1. stage'[1] \in {"idle", "drop"} /\ (stage'[1] = "idle" => infos'.out = ModelShape)
      BY <1>0, <1>2 DEF NoRun, Says
    <2> QED
      BY <1>1, <1>2, <2>1 DEF RoomOK, InCalls, NoRun
  \* The call goes on.
  <1>3. ASSUME Quiet, NEW next, stage'[1] = next, stage'[2] = stage[2], infos' = infos,
               next \in {"bmrt", "load", "discover", "sophon", "alloc_out", "launch", "sync"},
               next \in {"sophon", "alloc_out", "launch", "sync"} => infos.out = ModelShape,
               next \in {"launch", "sync"} => room' = ModelShape
        PROVE  RoomOK' /\ kind' = kind /\ kind = "sophon" /\ (Quiet \/ Says)
    BY <1>1, <1>3 DEF RoomOK, InCalls, Quiet
  <1>4. CASE Fail
    <2>1. NoRun /\ done'.ok = FALSE
      BY <1>1, <1>4, FailSays DEF NoRun
    <2>2. stage[1] \notin {"drop", "dropped"} /\ (infos'.out = infos.out \/ infos'.out = ModelShape)
      <3>1. stage[1] \notin {"drop", "dropped"}
        BY <1>1 DEF Sophon, bm_dev_request, bmrt_create, Keep, load_bmodel, discover_network,
           SophonReshape, SophonRun, alloc_outputs, launch_tensor, At, Doing
      <3>2. infos' = infos \/ infos' = Infos(Ins, Outs, ModelShape) \/ infos' = [infos EXCEPT !.shape = arg]
        BY DEF Sophon, bm_dev_request, bmrt_create, Keep, load_bmodel, discover_network,
           SophonReshape, SophonRun, alloc_outputs, launch_tensor
      <3>3. infos \in SomeInfos
        BY DEF BackInv, FieldsOK
      <3> QED
        BY <3>1, <3>2, <3>3 DEF SomeInfos, Infos
    <2> QED
      BY <1>2, <2>1, <2>2
  <1>5. CASE ~Fail /\ (bm_dev_request \/ bmrt_create)
    <2>1. PICK next \in {"bmrt", "load"} : Go(next) /\ done' = done /\ infos' = infos
      BY <1>5 DEF bm_dev_request, bmrt_create, Keep
    <2>2. Quiet /\ stage'[1] = next /\ stage'[2] = stage[2]
      BY <1>1, <2>1, GoQuiet
    <2> QED
      BY <1>3, <2>1, <2>2
  <1>6. CASE ~Fail /\ (load_bmodel \/ SophonRun)
    <2>1. PICK next \in {"discover", "sophon", "alloc_out"} :
            /\ Go(next) /\ done' = done /\ infos' = infos
            /\ next # "discover" => stage[1] = "sophon" /\ stage[2] = "run"
      BY <1>1, <1>6 DEF load_bmodel, SophonRun, Doing, At, Create
    <2>2. Quiet /\ stage'[1] = next /\ stage'[2] = stage[2]
      BY <1>1, <2>1, GoQuiet
    <2> QED
      BY <1>0, <1>3, <2>1, <2>2
  <1>7. CASE ~Fail /\ alloc_outputs
    <2>1. PICK next \in {"alloc_out", "launch"} : Create("buffer", next)
      BY <1>7 DEF alloc_outputs
    <2>2. infos' = infos /\ stage[1] = "alloc_out" /\ room' = infos.out
      BY <1>7 DEF alloc_outputs, At
    <2>3. Quiet /\ stage'[1] = next /\ stage'[2] = stage[2]
      <3>1. Go(next) /\ done' = done
        BY <1>7, <2>1 DEF Create
      <3> QED
        BY <1>1, <3>1, GoQuiet
    <2>4. infos.out = ModelShape
      BY <1>1, <2>2 DEF RoomOK, InCalls
    <2> QED
      BY <1>3, <2>1, <2>2, <2>3, <2>4
  <1>8. CASE ~Fail /\ launch_tensor
    <2>1. infos' = infos /\ stage[1] = "launch" /\ room' = room /\ Go("sync") /\ done' = done
      BY <1>8 DEF launch_tensor, At, fixed
    <2>2. infos.out = ModelShape /\ room = ModelShape
      BY <1>1, <2>1 DEF RoomOK, InCalls
    <2>3. Quiet /\ stage'[1] = "sync" /\ stage'[2] = stage[2]
      BY <1>1, <2>1, GoQuiet
    <2> QED
      BY <1>3, <2>1, <2>2, <2>3
  <1>9. CASE ~Fail /\ (discover_network \/ SophonReshape)
    <2>1. /\ stage[1] \in {"discover", "sophon"} /\ \E shape : Return(TRUE, 0, shape)
          /\ stage[1] = "sophon" => stage[2] = "reshape"
      BY <1>1, <1>9 DEF discover_network, SophonReshape, At, Doing
    <2>2. stage[2] \in {"init", "reshape"}
      BY <2>1 DEF BackInv, StageOK
    <2>3. NoRun
      BY <1>1, <2>1, <2>2, ReturnSays DEF NoRun
    <2>4. infos \in SomeInfos
      BY DEF BackInv, FieldsOK
    <2>5. CASE discover_network
      <3>0. infos' = Infos(Ins, Outs, ModelShape)
        BY <1>9, <2>5, Zenon DEF discover_network
      <3>1. infos'.out = ModelShape
        BY <3>0 DEF Infos
      <3> QED
        BY <1>2, <2>1, <2>3, <3>1
    <2>6. CASE SophonReshape
      <3>1. infos'.out = infos.out /\ stage[2] = "reshape"
        BY <1>9, <2>4, <2>6 DEF SophonReshape, SomeInfos, Doing
      <3> QED
        BY <1>2, <2>1, <2>3, <3>1
    <2> QED
      BY <1>9, <2>5, <2>6
  <1> QED
    BY <1>4, <1>5, <1>6, <1>7, <1>8, <1>9 DEF Sophon

LEMMA TensorRtRoom == BackInv /\ RoomOK /\ TensorRt => RoomOK' /\ kind' = kind /\ kind = "tensorrt" /\ (Quiet \/ Says)
  <1> SUFFICES ASSUME BackInv, RoomOK, TensorRt
               PROVE  RoomOK' /\ kind' = kind /\ kind = "tensorrt" /\ (Quiet \/ Says)
    OBVIOUS
  <1>1. kind' = kind /\ calls' = calls /\ kind = "tensorrt"
    BY DEF BackInv, StageOK, TrtPlaces, AllKinds, TensorRt, runtime_create, deserialize, create_context, TrtObject,
           inspect_bindings, TrtReshape, refresh_output_infos, CudaStream, set_input_shape, set_tensor_address, enqueue,
           At, fixed
  <1>2. ASSUME NoRun
        PROVE  RoomOK' /\ kind' = kind /\ kind = "tensorrt" /\ (Quiet \/ Says)
    <2>1. stage'[1] \in {"idle", "drop"}
      BY <1>2 DEF NoRun, Says
    <2> QED
      BY <1>1, <1>2, <2>1 DEF RoomOK, NoRun
  <1>3. ASSUME Quiet, NEW next, stage'[1] = next,
               next \in {"enqueue", "sync"} => room' = native'
        PROVE  RoomOK' /\ kind' = kind /\ kind = "tensorrt" /\ (Quiet \/ Says)
    BY <1>1, <1>3 DEF RoomOK, Quiet
  <1>4. CASE Fail
    BY <1>1, <1>2, <1>4, FailSays DEF NoRun
  <1>5. CASE ~Fail /\ (runtime_create \/ deserialize \/ create_context \/ CudaStream \/ set_input_shape)
    <2>1. PICK next \in {"engine", "ctx", "bindings", "bind_in", "bind_out"} : Go(next) /\ done' = done
      BY <1>5 DEF runtime_create, deserialize, create_context, TrtObject, CudaStream, set_input_shape, Create
    <2>2. Quiet /\ stage'[1] = next
      BY <1>1, <2>1, GoQuiet
    <2> QED
      BY <1>3, <2>2
  <1>6. CASE ~Fail /\ TrtReshape
    <2>1. Go("outputs") /\ done' = done
      BY <1>6 DEF TrtReshape
    <2>2. Quiet /\ stage'[1] = "outputs"
      BY <1>1, <2>1, GoQuiet
    <2> QED
      BY <1>3, <2>2
  <1>7. CASE ~Fail /\ refresh_output_infos
    <2>1. stage[1] = "outputs" /\ Return(TRUE, 0, arg)
      BY <1>7 DEF refresh_output_infos, At
    <2>2. stage[2] = "reshape"
      BY <2>1 DEF BackInv, StageOK
    <2> QED
      BY <1>1, <1>2, <2>1, <2>2, ReturnSays DEF NoRun
  <1>8. CASE ~Fail /\ inspect_bindings
    <2>1. /\ stage[1] = "bindings" /\ Go("idle")
          /\ done' = [call |-> "init", ok |-> TRUE, outs |-> 0, shape |-> ModelShape, room |-> ModelShape, by |-> calls]
      BY <1>8 DEF inspect_bindings, At
    <2>2. stage[2] = "init"
      BY <2>1 DEF BackInv, StageOK
    <2>3. stage'[1] = "idle" /\ stage'[2] = "init"
      BY <2>1, <2>2 DEF Go
    <2>4. NoRun
      BY <1>1, <2>1, <2>2, <2>3 DEF NoRun, Says
    <2> QED
      BY <1>2, <2>4
  <1>9. CASE ~Fail /\ set_tensor_address
    <2>1. PICK next \in {"bind_out", "enqueue"} : Create("buffer", next)
      BY <1>9 DEF set_tensor_address
    <2>2. Go(next) /\ done' = done /\ room' = native /\ native' = native
      BY <1>9, <2>1 DEF Create, set_tensor_address
    <2>3. Quiet /\ stage'[1] = next
      BY <1>1, <2>2, GoQuiet
    <2> QED
      BY <1>3, <2>2, <2>3
  <1>10. CASE ~Fail /\ enqueue
    <2>1. stage[1] = "enqueue" /\ Go("sync") /\ done' = done /\ room' = room /\ native' = native
      BY <1>10 DEF enqueue, At, fixed
    <2>2. Quiet /\ stage'[1] = "sync" /\ room = native
      BY <1>1, <2>1, GoQuiet DEF RoomOK
    <2> QED
      BY <1>3, <2>1, <2>2
  <1> QED
    BY <1>4, <1>5, <1>6, <1>7, <1>8, <1>9, <1>10 DEF TensorRt

\* The run is over: its outputs come from the memory it was given.
LEMMA SyncRoom ==
    BackInv /\ RoomOK /\ synchronize
    => /\ RoomOK' /\ kind' = kind /\ calls' = calls /\ kind # "openvino"
       /\ done'.by = calls /\ done'.call = stage[2] /\ stage'[1] \in {"idle", "drop"}
  <1> SUFFICES ASSUME BackInv, RoomOK, synchronize
               PROVE  /\ RoomOK' /\ kind' = kind /\ calls' = calls /\ kind # "openvino"
                      /\ done'.by = calls /\ done'.call = stage[2] /\ stage'[1] \in {"idle", "drop"}
    OBVIOUS
  <1>1. /\ stage[1] = "sync" /\ UNCHANGED <<kind, infos, native, calls, room>>
        /\ Answer(TRUE, Outs, native, room, calls) \/ Fail
    BY DEF synchronize, At, fixed
  <1>2. kind \in {"sophon", "tensorrt"} /\ stage[2] = "run"
    BY <1>1 DEF BackInv, StageOK
  <1>3. /\ done'.by = calls /\ done'.call = stage[2] /\ stage'[1] \in {"idle", "drop"}
        /\ done'.ok = FALSE \/ (done'.room = room /\ done'.shape = native)
    BY <1>1, <1>2 DEF Fail, Return, Answer, Go
  <1>4. kind = "sophon" => room = ModelShape /\ infos.out = ModelShape
    BY <1>1 DEF RoomOK, InCalls
  <1>5. kind = "tensorrt" => room = native
    BY <1>1 DEF RoomOK
  <1>6. RoomOK'
    BY <1>1, <1>2, <1>3, <1>4, <1>5 DEF RoomOK
  <1> QED
    BY <1>1, <1>2, <1>3, <1>6

LEMMA StartRoom ==
    BackInv /\ RoomOK /\ (Release \/ InitCall \/ Call \/ Drop)
    => /\ RoomOK' /\ kind' = kind
       /\ \/ Quiet
          \/ Says /\ stage'[1] = "drop"
          \/ stage'[1] \notin {"idle", "run_poll"} /\ calls' = calls + 1 /\ done' = done
  <1> SUFFICES ASSUME BackInv, RoomOK, Release \/ InitCall \/ Call \/ Drop
               PROVE  /\ RoomOK' /\ kind' = kind
                      /\ \/ Quiet
                         \/ Says /\ stage'[1] = "drop"
                         \/ stage'[1] \notin {"idle", "run_poll"} /\ calls' = calls + 1 /\ done' = done
    OBVIOUS
  <1>0. UNCHANGED <<kind, infos, room, native>> /\ kind \in AllKinds
    BY SizesAssumption DEF BackInv, FieldsOK, AllKinds, Release, InitCall, Call, Drop, fixed
  <1>1. CASE Release
    <2>1. UNCHANGED <<stage, done, calls>>
      BY <1>1 DEF Release
    <2> QED
      BY <1>0, <2>1 DEF RoomOK, InCalls, Quiet
  <1>2. CASE InitCall
    <2>1. stage[1] = "new" /\ stage[2] = "init" /\ calls' = calls /\ (Fail \/ (Go(kind) /\ done' = done))
      BY <1>2 DEF InitCall, At, BackInv, StageOK
    <2>2. CASE Fail
      <3>1. Says /\ done'.ok = FALSE /\ stage'[1] = "drop"
        BY <2>1, <2>2, FailSays DEF Says
      <3> QED
        BY <1>0, <3>1 DEF RoomOK, InCalls, Says, AllKinds
    <2>3. CASE Go(kind) /\ done' = done
      <3>1. Quiet /\ stage'[1] = kind /\ stage'[2] = "init"
        BY <1>0, <2>1, <2>3, GoQuiet DEF AllKinds
      <3> QED
        BY <1>0, <3>1 DEF RoomOK, InCalls, Quiet, AllKinds
    <2> QED
      BY <2>1, <2>2, <2>3
  <1>3. CASE Call
    <2>1. stage[1] = "idle" /\ stage'[1] = kind /\ calls' = calls + 1 /\ done' = done
      BY <1>3 DEF Call, At
    <2> QED
      BY <1>0, <2>1 DEF RoomOK, InCalls, AllKinds
  <1>4. CASE Drop
    <2>1. stage'[1] = "dropped" /\ done' = done /\ calls' = calls
      BY <1>4 DEF Drop, Go
    <2> QED
      BY <1>0, <2>1 DEF RoomOK, InCalls, Quiet, AllKinds
  <1> QED
    BY <1>1, <1>2, <1>3, <1>4

LEMMA BackendRoom ==
    ASSUME BackInv, RoomOK, AskedOK, BackendNext, UNCHANGED poolVars
    PROVE  RoomOK' /\ AskedOK'
  <1>0. /\ flight' = flight /\ calls \in Nat /\ flight \in Seq(Request)
        /\ kind # "openvino" => flight = <<>>
    BY SizesAssumption DEF poolVars, BackInv, PoolOK, FieldsOK, Request
  <1>a. \A i \in DOMAIN flight : flight[i].by \in Nat /\ flight[i].by <= calls
    <2>1. \A i \in DOMAIN flight : flight[i] \in Request
      BY <1>0
    <2> QED
      BY <2>1 DEF Request, AskedOK
  <1>b. stage[1] = "run_poll" => kind = "openvino"
    BY DEF BackInv, StageOK, OvPlaces
  <1>1. CASE Release \/ InitCall \/ Call \/ Drop
    <2>1. RoomOK' /\ kind' = kind
      BY <1>1, StartRoom
    <2>2. CASE Quiet
      <3>1. stage'[1] = "run_poll" => stage' = stage
        <4>1. kind \in AllKinds
          BY SizesAssumption DEF BackInv, FieldsOK, AllKinds
        <4>2. CASE Release
          BY <4>2 DEF Release
        <4>3. CASE InitCall \/ Call \/ Drop
          BY <4>1, <4>3 DEF InitCall, Call, Drop, Go, Fail, Return, Answer, AllKinds
        <4> QED
          BY <1>1, <4>2, <4>3
      <3> QED
        BY <1>0, <2>1, <2>2, <3>1 DEF AskedOK, RunsAnswerTheirOwn, Quiet
    <2>3. CASE Says /\ stage'[1] = "drop"
      BY <1>0, <2>1, <2>3 DEF AskedOK, RunsAnswerTheirOwn, Says
    <2>4. CASE stage'[1] \notin {"idle", "run_poll"} /\ calls' = calls + 1 /\ done' = done
      <3>1. \A i \in DOMAIN flight : flight[i].by <= calls + 1
        BY <1>0, <1>a
      <3> QED
        BY <1>0, <2>1, <2>4, <3>1 DEF AskedOK, RunsAnswerTheirOwn
    <2> QED
      BY <1>1, <2>1, <2>2, <2>3, <2>4, StartRoom
  \* Backends without requests.
  <1>2. ASSUME RoomOK', kind # "openvino", kind' = kind, StageOK',
               \/ Quiet
               \/ done'.by = calls /\ calls' = calls
        PROVE  RoomOK' /\ AskedOK'
    <2>1. flight' = <<>> /\ DOMAIN flight' = {}
      BY <1>0, <1>2
    <2>2. stage'[1] # "run_poll"
      BY <1>2 DEF StageOK, OvPlaces
    <2>3. RunsAnswerTheirOwn'
      BY <1>2 DEF AskedOK, RunsAnswerTheirOwn, Quiet
    <2> QED
      BY <1>2, <2>1, <2>2, <2>3 DEF AskedOK
  <1>3. CASE Rknn
    <2>1. StageOK'
      BY <1>3, RknnData
    <2>2. kind' = kind /\ kind = "rknn" /\ (Quiet \/ Says)
      BY <1>3, RknnSays
    <2>3. RoomOK'
      BY <2>2 DEF RoomOK, Quiet, Says
    <2> QED
      BY <1>2, <2>1, <2>2, <2>3 DEF Says
  <1>4. CASE Sophon
    <2>1. StageOK'
      BY <1>4, SophonData
    <2> QED
      BY <1>2, <1>4, <2>1, SophonRoom DEF Says
  <1>5. CASE synchronize
    <2>1. StageOK'
      BY <1>5, SyncData
    <2> QED
      BY <1>2, <1>5, <2>1, SyncRoom
  <1>6. CASE TensorRt
    <2>1. StageOK'
      BY <1>6, TensorRtData
    <2> QED
      BY <1>2, <1>6, <2>1, TensorRtRoom DEF Says
  <1> QED
    BY <1>1, <1>3, <1>4, <1>5, <1>6 DEF BackendNext

LEMMA OpenVinoRoom ==
    ASSUME BackInv, RoomOK, AskedOK, OpenVINO
    PROVE  RoomOK' /\ AskedOK'
  <1>0. /\ calls \in Nat /\ flight \in Seq(Request)
    BY SizesAssumption DEF BackInv, PoolOK, FieldsOK, Request
  <1>a. \A i \in DOMAIN flight : flight[i].by \in Nat /\ flight[i].by <= calls
    <2>1. \A i \in DOMAIN flight : flight[i] \in Request
      BY <1>0
    <2> QED
      BY <2>1 DEF Request, AskedOK
  <1>1. CASE Ended
    <2>1. UNCHANGED <<kind, infos, stage, done, calls, room, native>>
      BY <1>1 DEF Ended, backendVars
    <2>2. DOMAIN flight' = DOMAIN flight /\ \A i \in DOMAIN flight : flight'[i].by = flight[i].by
      <3>1. PICK k \in DOMAIN flight : flight' = [flight EXCEPT ![k].state = "ended"]
        BY <1>1 DEF Ended
      <3>2. PICK q \in Request : q = flight[k]
        BY <1>0, <3>1
      <3>3. PICK r : r = [q EXCEPT !.state = "ended"]
        OBVIOUS
      <3>4. r.by = q.by
        BY <3>3 DEF Request
      <3>5. flight' = [flight EXCEPT ![k] = r]
        BY <3>1, <3>2, <3>3
      <3> QED
        BY <1>0, <3>2, <3>4, <3>5
    <2>3. AskedOK'
      <3>1. \A i \in DOMAIN flight' : flight'[i].by <= calls'
        BY <1>a, <2>1, <2>2
      <3>2. stage'[1] = "run_poll" => \E i \in DOMAIN flight' : flight'[i].by = calls'
        BY <2>1, <2>2 DEF AskedOK
      <3>3. RunsAnswerTheirOwn'
        BY <2>1, <2>2 DEF AskedOK, RunsAnswerTheirOwn
      <3> QED
        BY <3>1, <3>2, <3>3 DEF AskedOK
    <2> QED
      BY <2>1, <2>3 DEF RoomOK, InCalls
  <1>2. CASE ~Ended
    <2>1. kind = "openvino" /\ kind' = kind /\ calls' = calls /\ stage[1] \notin {"idle", "drop", "dropped"}
      BY <1>2 DEF OpenVINO, OvInit, submit, poll, cancel, OvReshape, OvCompile, fixed, Doing, At,
                  BackInv, StageOK, OvPlaces, AllKinds
    \* The requests that are left are of calls up to this one.
    <2>2. ASSUME Quiet \/ Says, \A i \in DOMAIN flight' : flight'[i].by <= calls,
                 stage'[1] = "run_poll" => \E i \in DOMAIN flight' : flight'[i].by = calls
          PROVE  RoomOK' /\ AskedOK'
      <3>1. RoomOK'
        BY <2>1, <2>2 DEF RoomOK, Quiet, Says
      <3>2. RunsAnswerTheirOwn'
        BY <2>1, <2>2 DEF RunsAnswerTheirOwn, Quiet, Says
      <3> QED
        BY <2>1, <2>2, <3>1, <3>2 DEF AskedOK
    <2>3. CASE OvInit \/ OvReshape \/ OvCompile \/ cancel
      <3>1. flight' = flight \/ flight' = <<>>
        BY <2>3 DEF OvInit, OvReshape, OvCompile, cancel
      <3>2. \A i \in DOMAIN flight' : flight'[i].by <= calls
        BY <1>a, <3>1
      <3>3. Fail \/ (\E shape : Return(TRUE, 0, shape)) \/ (Go("compile") /\ done' = done)
        BY <2>3 DEF OvInit, OvReshape, OvCompile, cancel
      <3>4. (Quiet \/ Says) /\ stage'[1] # "run_poll"
        <4>1. CASE Fail
          BY <2>1, <4>1, FailSays DEF Says
        <4>2. CASE \E shape : Return(TRUE, 0, shape)
          BY <2>1, <4>2, ReturnSays DEF Says
        <4>3. CASE Go("compile") /\ done' = done
          BY <2>1, <4>3, GoQuiet
        <4> QED
          BY <3>3, <4>1, <4>2, <4>3
      <3> QED
        BY <2>2, <3>2, <3>4
    <2>4. CASE submit
      <3>0. stage[2] \in {"submit", "run"}
        BY <2>4 DEF submit, Doing
      <3>1. CASE flight' = flight
        <4>1. Fail
          <5>1. SUFFICES ASSUME ~Fail PROVE FALSE
            OBVIOUS
          <5>2. PICK q : q = [by |-> calls, shape |-> arg, state |-> "busy"]
            OBVIOUS
          <5>3. flight' = Append(flight, q)
            BY <2>4, <5>1, <5>2 DEF submit
          <5>4. Len(flight') = Len(flight) + 1 /\ Len(flight) \in Nat
            BY <1>0, <5>3, AppendProperties
          <5> QED
            BY <3>1, <5>4
        <4>2. Says /\ stage'[1] # "run_poll"
          BY <2>1, <4>1, FailSays DEF Says
        <4> QED
          BY <1>a, <2>2, <3>1, <4>2
      <3>2. CASE flight' # flight
        <4>1. PICK q : q = [by |-> calls, shape |-> arg, state |-> "busy"]
          OBVIOUS
        <4>2. /\ flight' = Append(flight, q) /\ q.by = calls
              /\ Return(TRUE, 0, arg) \/ (Go("run_poll") /\ done' = done)
          BY <3>2, <2>4, <4>1 DEF submit
        <4>3. Quiet \/ Says
          BY <2>1, <4>2, ReturnSays, GoQuiet
        <4>4. /\ DOMAIN flight' = 1 .. Len(flight) + 1 /\ DOMAIN flight = 1 .. Len(flight)
              /\ \A i \in 1 .. Len(flight) : flight'[i] = flight[i]
              /\ flight'[Len(flight) + 1] = q /\ Len(flight) \in Nat
          <5>1. q \in Request
            BY <1>0, <4>1 DEF Request, BackInv, FieldsOK
          <5> QED
            BY <1>0, <4>2, <5>1, AppendProperties
        <4>5. \A i \in DOMAIN flight' : flight'[i].by <= calls
          BY <1>0, <1>a, <4>2, <4>4
        <4>6. \E i \in DOMAIN flight' : flight'[i].by = calls
          BY <4>2, <4>4
        <4> QED
          BY <2>2, <4>3, <4>5, <4>6
      <3> QED
        BY <3>1, <3>2
    <2>5. CASE poll
      <3>1. CASE Return(TRUE, 0, None) /\ flight' = flight
        <4>1. Says /\ stage'[1] # "run_poll"
          BY <2>1, <3>1, ReturnSays DEF Says
        <4> QED
          BY <1>a, <2>2, <3>1, <4>1
      <3>2. CASE ~(Return(TRUE, 0, None) /\ flight' = flight)
        <4>1. PICK k \in 1 .. Len(flight) :
                 /\ flight' = RemoveAt(flight, k)
                 /\ Fail \/ Answer(TRUE, infos.outs, flight[k].shape, flight[k].shape, flight[k].by)
          <5>1. PICK over : over = {i \in DOMAIN flight : flight[i].state # "busy"}
            OBVIOUS
          <5>a. over # {}
            BY <2>5, <3>2, <5>1, Zenon DEF poll
          <5>2. over # {} /\ over \subseteq 1 .. Len(flight) /\ over \in SUBSET Nat
            BY <1>0, <5>1, <5>a
          <5>3. \E i \in over : \A j \in over : i <= j
            BY <5>2, LeastNumber
          <5>4. PICK k : k = CHOOSE i \in over : \A j \in over : i <= j
            OBVIOUS
          <5>5. k \in over
            BY <5>3, <5>4
          <5>6. /\ flight' = RemoveAt(flight, k)
                /\ Fail \/ Answer(TRUE, infos.outs, flight[k].shape, flight[k].shape, flight[k].by)
            BY <2>5, <3>2, <5>1, <5>2, <5>4 DEF poll
          <5> QED
            BY <5>2, <5>5, <5>6
        <4>2. /\ \A i \in DOMAIN flight' : \E j \in DOMAIN flight : flight'[i] = flight[j]
              /\ \A j \in DOMAIN flight : j # k => \E i \in DOMAIN flight' : flight'[i] = flight[j]
          BY <1>0, <4>1, RemoveAtIs
        <4>3. \A i \in DOMAIN flight' : flight'[i].by <= calls
          BY <1>a, <4>2
        <4>4. CASE Fail
          <5>1. Says /\ stage'[1] # "run_poll"
            BY <2>1, <4>4, FailSays DEF Says
          <5> QED
            BY <2>2, <4>3, <5>1
        <4>5. CASE Answer(TRUE, infos.outs, flight[k].shape, flight[k].shape, flight[k].by)
          <5>1. /\ done'.room = done'.shape /\ done'.by = flight[k].by /\ done'.call = stage[2]
                /\ stage' = <<"idle", stage[2]>>
            BY <4>5 DEF Answer, Go
          <5>2. RoomOK'
            BY <2>1, <5>1 DEF RoomOK
          <5>3. k \in DOMAIN flight /\ flight[k].by \in Nat /\ flight[k].by <= calls
            BY <1>0, <1>a, <4>1
          <5>4. CASE flight[k].by = calls
            <6>1. RunsAnswerTheirOwn'
              BY <2>1, <5>1, <5>4 DEF RunsAnswerTheirOwn
            <6> QED
              BY <2>1, <4>3, <5>1, <5>2, <6>1 DEF AskedOK
          <5>5. CASE flight[k].by # calls
            <6>1. flight[k].by < calls
              BY <1>0, <5>3, <5>5
            <6>2. stage[2] = "run" => stage[1] = "run_poll"
              BY <2>5 DEF poll, Doing, At
            <6>3. stage[2] = "run" => \E i \in DOMAIN flight' : flight'[i].by = calls
              <7>1. SUFFICES ASSUME stage[2] = "run" PROVE \E i \in DOMAIN flight' : flight'[i].by = calls
                OBVIOUS
              <7>2. PICK j \in DOMAIN flight : flight[j].by = calls
                BY <6>2, <7>1 DEF AskedOK
              <7>3. j # k
                BY <5>5, <7>2
              <7> QED
                BY <4>2, <7>2, <7>3
            <6>4. RunsAnswerTheirOwn'
              BY <2>1, <5>1, <6>1, <6>3 DEF RunsAnswerTheirOwn
            <6> QED
              BY <2>1, <4>3, <5>1, <5>2, <6>4 DEF AskedOK
          <5> QED
            BY <5>4, <5>5
        <4> QED
          BY <4>1, <4>4, <4>5
      <3> QED
        BY <3>1, <3>2
    <2> QED
      BY <1>2, <2>3, <2>4, <2>5 DEF OpenVINO
  <1> QED
    BY <1>1, <1>2

-----------------------------------------------------------------------------
(* The backends *)

LEMMA BackStart == OvStart => BackInv
  <1> SUFFICES ASSUME OvStart PROVE BackInv
    OBVIOUS
  <1>1. /\ kind \in Kinds /\ kind \in AllKinds /\ live = {} /\ held = <<>> /\ mems = NoMems /\ infos = NoInfos /\ failed = FALSE
        /\ native = None /\ local = <<>> /\ raw = <<>> /\ dying = <<>> /\ inUse = {}
        /\ stage = <<"new", "init">> /\ arg = None /\ broken = FALSE /\ calls = 0
        /\ free = <<>> /\ flight = <<>> /\ model = None
    BY SizesAssumption DEF OvStart, BackendInit, OvVarsInit, AllKinds
  <1>2. StageOK
    BY <1>1 DEF StageOK, Places, CallNames, AllKinds, RknnPlaces, SophonPlaces, TrtPlaces, OvPlaces
  <1>3. FieldsOK
    <2>1. infos \in SomeInfos
      BY <1>1, InfosType, ShapesAre DEF NoInfos
    <2>2. calls \in 0 .. MaxCalls
      BY <1>1, SizesAssumption
    <2>3. stage[1] = "new"
      BY <1>1
    <2> QED
      BY <1>1, <2>1, <2>2, <2>3, ShapesAre DEF FieldsOK
  <1>4. OwnersOK
    <2>1. NoMems \in [objs : Seq({}), shape : Sizes] /\ NoMems.objs = <<>>
      BY ShapesAre DEF NoMems
    <2> QED
      BY <1>1, <2>1, EmptyRow, FS_EmptySet DEF OwnersOK, Owned, Apart
  <1>5. RowsOK
    BY <1>1 DEF RowsOK, NoMems
  <1>6. DyingOK /\ OrphansOK
    BY <1>1 DEF DyingOK, OrphansOK, Orphans
  <1>7. RknnOK /\ RunsOK
    BY <1>1 DEF RknnOK, RunsOK, InCalls, AllKinds
  <1>8. PoolOK
    BY <1>1, ShapesAre, MaxRequestsAssumption DEF PoolOK, InCalls, AllKinds
  <1> QED
    BY <1>2, <1>3, <1>4, <1>5, <1>6, <1>7, <1>8 DEF BackInv, HoldOK

LEMMA BackStep == BackInv /\ [(BackendNext /\ UNCHANGED poolVars) \/ OpenVINO]_allVars => BackInv'
  <1> SUFFICES ASSUME BackInv, [(BackendNext /\ UNCHANGED poolVars) \/ OpenVINO]_allVars PROVE BackInv'
    OBVIOUS
  <1>1. CASE BackendNext /\ UNCHANGED poolVars
    <2>1. HoldOK' /\ StageOK' /\ FieldsOK' /\ RknnOK' /\ RunsOK'
      <3>1. CASE Release
        <4>1. UNCHANGED <<kind, mems, infos, failed, native, stage, arg, done, broken, calls>>
          BY <3>1 DEF Release, fixed
        <4> QED
          BY <3>1, <4>1, ReleaseHolds, SameData
      <3>2. CASE InitCall \/ Call
        BY <3>2, StartHolds, StartData
      <3>3. CASE Drop
        BY <3>3, DropHolds, StartData
      <3>4. CASE Rknn
        BY <3>4, RknnHolds, RknnData
      <3>5. CASE Sophon
        BY <3>5, SophonHolds, SophonData
      <3>6. CASE synchronize
        BY <3>6, SyncHolds, SyncData
      <3>7. CASE TensorRt
        BY <3>7, TensorRtHolds, TensorRtData
      <3> QED
        BY <1>1, <3>1, <3>2, <3>3, <3>4, <3>5, <3>6, <3>7 DEF BackendNext
    <2>2. PoolOK'
      BY <1>1, <2>1, BackendPool
    <2> QED
      BY <2>1, <2>2 DEF BackInv
  <1>2. CASE OpenVINO
    <2>1. HoldOK'
      BY <1>2, OpenVinoHolds
    <2>2. StageOK' /\ FieldsOK' /\ RknnOK' /\ RunsOK' /\ PoolOK'
      <3>1. CASE Ended
        <4>1. UNCHANGED <<kind, mems, infos, failed, native, stage, arg, done, broken, calls>>
          BY <3>1 DEF Ended, backendVars
        <4> QED
          BY <3>1, <4>1, EndedPool, SameData
      <3> QED
        BY <1>2, <3>1, CompileData, SubmitData, PollData, CancelData, ReshapeData DEF OpenVINO
    <2> QED
      BY <2>1, <2>2 DEF BackInv
  <1>3. CASE UNCHANGED allVars
    <2>1. UNCHANGED backendVars /\ UNCHANGED <<free, flight, model>>
      BY <1>3 DEF allVars, poolVars
    <2>2. UNCHANGED <<kind, mems, infos, failed, native, stage, arg, done, broken, calls>>
      BY <2>1 DEF backendVars
    <2>3. PoolOK'
      BY <2>1, <2>2 DEF BackInv, PoolOK, Begun, InCalls
    <2> QED
      BY <2>1, <2>2, <2>3, SameHolds, SameData DEF BackInv
  <1> QED
    BY <1>1, <1>2, <1>3

(* Whatever native call fails, and in whichever backend: nothing but the   *)
(* two known things of RKNN is forgotten; a run that succeeds has the      *)
(* outputs and the shape of the model, out of memory of that size but for  *)
(* Sophon's, which stays of the size of the model's own shape; it answers  *)
(* with its own outputs, or, with OpenVINO, with those of an earlier       *)
(* submission while its own stay in flight; and the requests of OpenVINO   *)
(* stay as many, and of the shape, they should be.                         *)
THEOREM FailuresContained == OvSpec => []FailuresAreContained
  <1>1. BackInv /\ RoomOK /\ AskedOK => FailuresAreContained
    <2> SUFFICES ASSUME BackInv, RoomOK, AskedOK PROVE FailuresAreContained
      OBVIOUS
    <2>1. BackendTypeOK
      <3>1. /\ kind \in Kinds /\ calls \in 0..MaxCalls /\ native \in Shapes \cup {None}
            /\ failed \in BOOLEAN /\ broken \in BOOLEAN /\ infos.ins \in 0..Ins /\ infos.outs \in 0..Outs
        BY DEF BackInv, FieldsOK, SomeInfos, Sizes
      <3>2. Owned(live, held, mems.objs, local, raw, dying, inUse)
        BY DEF BackInv, HoldOK, OwnersOK
      <3>3. /\ ToSet(held) \subseteq live /\ ToSet(mems.objs) \subseteq live /\ ToSet(local) \subseteq live
            /\ ToSet(raw) \subseteq live /\ ToSet(dying) \subseteq live /\ inUse \subseteq live
        BY <3>2, RowGrows DEF Owned
      <3> QED
        BY <3>1, <3>3 DEF BackendTypeOK
    <2>2. OnlyKnownLeaks
      BY DEF BackInv, HoldOK, OrphansOK, OnlyKnownLeaks
    <2>3. PoolIsSound
      <3>1. ~broken /\ stage[1] = "idle" => \A i \in DOMAIN free : free[i] = native
        BY DEF BackInv, PoolOK, InCalls
      <3> QED
        BY <3>1 DEF BackInv, PoolOK, PoolIsSound
    <2>4. SoundRuns
      <3>1. kind \in {"rknn", "sophon", "tensorrt", "openvino"} /\ Outs # 0
        BY SizesAssumption DEF BackInv, FieldsOK
      <3>2. CASE kind \in {"rknn", "openvino"}
        BY <3>2 DEF BackInv, RunsOK, RoomOK, SoundRuns
      <3>3. CASE kind \in {"sophon", "tensorrt"}
        BY <3>1, <3>3 DEF BackInv, RunsOK, RoomOK, SoundRuns
      <3> QED
        BY <3>1, <3>2, <3>3
    <2> QED
      BY <2>1, <2>2, <2>3, <2>4 DEF FailuresAreContained, AskedOK
  <1>2. OvStart => RoomOK /\ AskedOK
    <2> SUFFICES ASSUME OvStart PROVE RoomOK /\ AskedOK
      OBVIOUS
    <2>1. /\ stage = <<"new", "init">> /\ flight = <<>> /\ kind \in AllKinds
          /\ done = [call |-> "none", ok |-> TRUE, outs |-> 0, shape |-> None, room |-> None, by |-> 0]
      BY SizesAssumption DEF OvStart, BackendInit, OvVarsInit, AllKinds
    <2> QED
      BY <2>1 DEF RoomOK, AskedOK, RunsAnswerTheirOwn, InCalls, AllKinds
  <1>3. /\ BackInv /\ RoomOK /\ AskedOK
        /\ [(BackendNext /\ UNCHANGED poolVars) \/ OpenVINO]_allVars
        => RoomOK' /\ AskedOK'
    <2>1. CASE UNCHANGED allVars
      BY <2>1 DEF allVars, backendVars, poolVars, RoomOK, AskedOK, RunsAnswerTheirOwn, InCalls
    <2> QED
      BY <2>1, BackendRoom, OpenVinoRoom
  <1> QED
    BY <1>1, <1>2, <1>3, BackStart, BackStep, PTL DEF OvSpec

\* An object goes when its turn has come, or is given back by a run.
LEMMA OnlyThese ==
    ASSUME BackendNext \/ OpenVINO
    PROVE  Release \/ staging_copy \/ live \subseteq live'
  <1>1. CASE InitCall \/ Call \/ Drop \/ synchronize
    BY <1>1 DEF InitCall, Call, Drop, synchronize
  <1>2. CASE Rknn
    BY <1>2 DEF Rknn, rknn_init, set_core_mask, set_input_shapes, RknnRun, refresh_counts, refresh_attrs,
                setup_zero_copy, run_zero_copy, staging_outputs
  <1>3. ASSUME NEW type, NEW next, Create(type, next) PROVE live \subseteq live'
    BY <1>3 DEF Create
  <1>4. CASE Sophon
    BY <1>3, <1>4 DEF Sophon, bm_dev_request, bmrt_create, Keep, load_bmodel, discover_network, SophonReshape, SophonRun,
                alloc_outputs, launch_tensor
  <1>5. CASE TensorRt
    BY <1>3, <1>5 DEF TensorRt, runtime_create, deserialize, create_context, TrtObject, inspect_bindings, TrtReshape,
                refresh_output_infos, CudaStream, set_input_shape, set_tensor_address, enqueue
  <1>6. CASE OpenVINO
    BY <1>6 DEF OpenVINO, OvInit, submit, poll, cancel, OvReshape, OvCompile, Ended, backendVars
  <1> QED
    BY <1>1, <1>2, <1>4, <1>5, <1>6 DEF BackendNext

(* No object is released while something that has an owner needs it, or    *)
(* the device works with it.                                               *)
THEOREM ReleaseOrderKept == OvSpec => ReleasedInOrder
  <1>1. ASSUME BackInv, [(BackendNext /\ UNCHANGED poolVars) \/ OpenVINO]_allVars
        PROVE  [\A o \in live \ live' :
                  /\ o \notin inUse'
                  /\ \A u \in live' \ Orphans : o.type \notin Needs(u)]_backendVars
    <2>1. CASE UNCHANGED backendVars
      BY <2>1
    <2>2. CASE live \subseteq live'
      BY <2>2
    <2>0. /\ Owned(live, held, mems.objs, local, raw, dying, inUse)
          /\ Orphans = live \ Mine(held, mems.objs, local, raw, dying)
      BY <1>1, OrphansAre DEF BackInv, HoldOK, OwnersOK
    <2>3. CASE Release
      <3>1. /\ dying # <<>> /\ live' = live \ {Head(dying)} /\ inUse' = inUse
        BY <2>3 DEF Release
      <3>2. dying \in Seq(live) /\ Apart(local, dying) /\ inUse \subseteq ToSet(local)
        BY <2>0 DEF Owned, Row
      <3>3. Head(dying) = dying[1] /\ 1 \in DOMAIN dying /\ dying[1] \in ToSet(dying)
        BY <3>1, <3>2 DEF ToSet
      <3>4. ASSUME NEW o \in live \ live' PROVE o = dying[1] /\ o \notin inUse'
        BY <3>1, <3>2, <3>3 DEF Apart
      <3>5. ASSUME NEW u \in live' \ Orphans PROVE dying[1].type \notin NeedsOf(kind, u.type)
        <4>1. CASE \A i \in DOMAIN dying : dying[i].type \in Leaf
          BY <3>3, <4>1, NeedsFacts
        <4>2. CASE /\ held = <<>> /\ mems = NoMems /\ local = <<>> /\ raw = <<>>
                   /\ \A i, j \in DOMAIN dying : i < j => dying[i].type \notin NeedsOf(kind, dying[j].type)
          <5>1. u \in ToSet(dying) /\ u # dying[1]
            <6>1. u \in Mine(held, mems.objs, local, raw, dying)
              BY <2>0, <3>1
            <6>2. mems.objs = <<>>
              BY <4>2 DEF NoMems
            <6> QED
              BY <3>1, <3>3, <4>2, <6>1, <6>2, EmptyRow DEF Mine
          <5>2. PICK j \in DOMAIN dying : u = dying[j]
            BY <5>1 DEF ToSet
          <5>3. 1 < j
            BY <3>2, <5>1, <5>2
          <5> QED
            BY <3>3, <4>2, <5>2, <5>3
        <4> QED
          BY <1>1, <4>1, <4>2 DEF BackInv, HoldOK, DyingOK, Needs
      <3> QED
        BY <3>4, <3>5 DEF Needs
    <2>4. CASE staging_copy
      <3>1. stage[1] = "copy" /\ inUse' = inUse /\ (live' = live \/ live' = live \ ToSet(raw))
        BY <2>4 DEF staging_copy, At
      <3>2. Len(raw) = 1 /\ raw[1].type = "outputs" /\ inUse = {}
        BY <1>1, <3>1 DEF BackInv, HoldOK, RowsOK
      <3>3. raw \in Seq(live)
        BY <2>0 DEF Owned, Row
      <3>4. ToSet(raw) = {raw[1]}
        BY <3>2, <3>3 DEF ToSet
      <3>5. ASSUME NEW o \in live \ live' PROVE o.type = "outputs" /\ o \notin inUse'
        BY <3>1, <3>2, <3>4
      <3>6. "outputs" \in Leaf
        BY DEF Leaf
      <3> QED
        BY <3>5, <3>6, NeedsFacts DEF Needs
    <2> QED
      BY <1>1, <2>1, <2>2, <2>3, <2>4, OnlyThese DEF allVars
  <1> QED
    BY <1>1, BackStart, BackStep, PTL DEF OvSpec, ReleasedInOrder
=============================================================================
