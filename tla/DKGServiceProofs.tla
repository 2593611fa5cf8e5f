-------------------------- MODULE DKGServiceProofs --------------------------
(***************************************************************************)
(* Proofs about DKGService, for every set of services, calls, run keys,    *)
(* handles and materials.                                                  *)
(***************************************************************************)
EXTENDS DKGService, TLAPS

\* Nothing is acquired, running or stored at first.
LEMMA ServiceInit == Init => ServiceInv
<1> SUFFICES ASSUME Init PROVE ServiceInv
  OBVIOUS
<1>1. TypeOK
  BY DEF Init, TypeOK, Points
<1>2. RunKeyExclusive
  BY DEF Init, RunKeyExclusive, Running
<1>3. MaterialInv
  BY ServiceAssumption DEF Init, MaterialInv, MaterialSpentOnce
<1>4. ShareInv
  BY DEF Init, ShareInv, OwnShareSaved, SuccessIsStored
<1> QED
  BY <1>1, <1>2, <1>3, <1>4 DEF ServiceInv

\* Every step keeps the types.
LEMMA TypeStep == ServiceInv /\ Next => TypeOK'
<1> SUFFICES ASSUME ServiceInv, Next PROVE TypeOK'
  OBVIOUS
<1> USE ServiceAssumption
<1> USE DEF ServiceInv, TypeOK, Points, RunKey, handleVars, callVars, MaterialInv
<1>1. ASSUME NEW h \in Handles, NEW s \in Services, AcquireDKGPreParams(h, s)
      PROVE  TypeOK'
  BY <1>1 DEF AcquireDKGPreParams
<1>2. ASSUME NEW h \in Handles, Discard(h)
      PROVE  TypeOK'
  BY <1>2 DEF Discard
<1>3. ASSUME NEW c \in Callers, RunDKGSession(c)
      PROVE  TypeOK'
  BY <1>3 DEF RunDKGSession
<1>4. ASSUME NEW c \in Callers, NEW h \in Handles, RunDKGSessionWithPreParams(c, h)
      PROVE  TypeOK'
  <2>1. CASE Consume(c, h) /\ pc' = [pc EXCEPT ![c] = "begin"]
    BY <1>4, <2>1 DEF RunDKGSessionWithPreParams, Consume
  <2>2. CASE UNCHANGED <<hstate, hmat, mat, supplied>> /\ pc' = [pc EXCEPT ![c] = "done"]
    BY <1>4, <2>2 DEF RunDKGSessionWithPreParams
  <2> QED
    BY <1>4, <2>1, <2>2 DEF RunDKGSessionWithPreParams
<1>5. ASSUME NEW c \in Callers, CallSteps(c)
      PROVE  TypeOK'
  <2>1. CASE BeginDKGRun(c)
    BY <2>1 DEF BeginDKGRun, Ends
  <2>2. CASE RefuseRun(c)
    BY <2>2 DEF RefuseRun, Ends
  <2>3. CASE AttachPreParams(c)
    BY <2>3 DEF AttachPreParams, Ends
  <2>4. CASE AttachFails(c)
    BY <2>4 DEF AttachFails, Ends
  <2>5. CASE RunnerStarts(c)
    BY <2>5 DEF RunnerStarts, Ends
  <2>6. CASE RunnerRefuses(c)
    BY <2>6 DEF RunnerRefuses, Ends
  <2>7. CASE ECDSARunSucceeds(c)
    BY <2>7 DEF ECDSARunSucceeds, Ends
  <2>8. CASE EdDSARunSucceeds(c)
    BY <2>8 DEF EdDSARunSucceeds, Ends
  <2>9. CASE ProtocolFails(c)
    BY <2>9 DEF ProtocolFails, Ends
  <2>10. CASE ExportShare(c)
    BY <2>10 DEF ExportShare, Ends
  <2>11. CASE ExportFails(c)
    BY <2>11 DEF ExportFails, Ends
  <2>12. CASE SaveShare(c)
    BY <2>12 DEF SaveShare, Ends
  <2>13. CASE SaveFails(c)
    BY <2>13 DEF SaveFails, Ends
  <2>14. CASE DeleteTemporaryShare(c)
    BY <2>14 DEF DeleteTemporaryShare, Ends
  <2>15. CASE EndDKGRun(c)
    BY <2>15 DEF EndDKGRun, Ends
  <2> QED
    BY <1>5, <2>1, <2>2, <2>3, <2>4, <2>5, <2>6, <2>7, <2>8, <2>9, <2>10, <2>11, <2>12, <2>13, <2>14, <2>15 DEF CallSteps
<1> QED
  BY <1>1, <1>2, <1>3, <1>4, <1>5 DEF Next

\* Every step keeps activeDKGRuns equal to the keys of the running calls.
LEMMA RunKeyStep == ServiceInv /\ Next => RunKeyExclusive'
<1> SUFFICES ASSUME ServiceInv, Next PROVE RunKeyExclusive'
  OBVIOUS
<1> USE ServiceAssumption
<1> USE DEF ServiceInv, TypeOK, RunKeyExclusive, Running, RunKey, handleVars, callVars
<1>1. ASSUME NEW h \in Handles, NEW s \in Services, AcquireDKGPreParams(h, s)
      PROVE  RunKeyExclusive'
  BY <1>1 DEF AcquireDKGPreParams
<1>2. ASSUME NEW h \in Handles, Discard(h)
      PROVE  RunKeyExclusive'
  BY <1>2 DEF Discard
<1>3. ASSUME NEW c \in Callers, RunDKGSession(c)
      PROVE  RunKeyExclusive'
  <2>1. \A d \in Callers : pc'[d] \in Running <=> pc[d] \in Running
    BY <1>3 DEF RunDKGSession
  <2>2. UNCHANGED <<svc, key, active>>
    BY <1>3 DEF RunDKGSession
  <2> QED
    BY <2>1, <2>2
<1>4. ASSUME NEW c \in Callers, NEW h \in Handles, RunDKGSessionWithPreParams(c, h)
      PROVE  RunKeyExclusive'
  <2>1. CASE Consume(c, h) /\ pc' = [pc EXCEPT ![c] = "begin"]
    <3>1. \A d \in Callers : pc'[d] \in Running <=> pc[d] \in Running
      BY <1>4, <2>1 DEF RunDKGSessionWithPreParams
    <3>2. UNCHANGED <<svc, key, active>>
      BY <1>4 DEF RunDKGSessionWithPreParams
    <3> QED
      BY <3>1, <3>2
  <2>2. CASE UNCHANGED <<hstate, hmat, mat, supplied>> /\ pc' = [pc EXCEPT ![c] = "done"]
    BY <1>4, <2>2 DEF RunDKGSessionWithPreParams
  <2> QED
    BY <1>4, <2>1, <2>2 DEF RunDKGSessionWithPreParams
<1>5. ASSUME NEW c \in Callers, CallSteps(c)
      PROVE  RunKeyExclusive'
  <2>1. CASE BeginDKGRun(c)
    BY <2>1 DEF BeginDKGRun, Ends
  <2>2. CASE RefuseRun(c)
    BY <2>2 DEF RefuseRun, Ends
  <2>3. CASE AttachPreParams(c)
    BY <2>3 DEF AttachPreParams, Ends
  <2>4. CASE AttachFails(c)
    BY <2>4 DEF AttachFails, Ends
  <2>5. CASE RunnerStarts(c)
    BY <2>5 DEF RunnerStarts, Ends
  <2>6. CASE RunnerRefuses(c)
    BY <2>6 DEF RunnerRefuses, Ends
  <2>7. CASE ECDSARunSucceeds(c)
    BY <2>7 DEF ECDSARunSucceeds, Ends
  <2>8. CASE EdDSARunSucceeds(c)
    BY <2>8 DEF EdDSARunSucceeds, Ends
  <2>9. CASE ProtocolFails(c)
    BY <2>9 DEF ProtocolFails, Ends
  <2>10. CASE ExportShare(c)
    BY <2>10 DEF ExportShare, Ends
  <2>11. CASE ExportFails(c)
    BY <2>11 DEF ExportFails, Ends
  <2>12. CASE SaveShare(c)
    BY <2>12 DEF SaveShare, Ends
  <2>13. CASE SaveFails(c)
    BY <2>13 DEF SaveFails, Ends
  <2>14. CASE DeleteTemporaryShare(c)
    BY <2>14 DEF DeleteTemporaryShare, Ends
  <2>15. CASE EndDKGRun(c)
    BY <2>15 DEF EndDKGRun, Ends
  <2> QED
    BY <1>5, <2>1, <2>2, <2>3, <2>4, <2>5, <2>6, <2>7, <2>8, <2>9, <2>10, <2>11, <2>12, <2>13, <2>14, <2>15 DEF CallSteps
<1> QED
  BY <1>1, <1>2, <1>3, <1>4, <1>5 DEF Next

\* Every step moves material between places, never copies it.
LEMMA MaterialStep == ServiceInv /\ Next => MaterialInv'
<1> SUFFICES ASSUME ServiceInv, Next PROVE MaterialInv'
  OBVIOUS
<1> USE ServiceAssumption
<1> USE DEF ServiceInv, TypeOK, MaterialInv, MaterialSpentOnce, handleVars, callVars
<1>1. ASSUME NEW h \in Handles, NEW s \in Services, AcquireDKGPreParams(h, s)
      PROVE  MaterialInv'
  BY <1>1 DEF AcquireDKGPreParams
<1>2. ASSUME NEW h \in Handles, Discard(h)
      PROVE  MaterialInv'
  BY <1>2 DEF Discard
<1>3. ASSUME NEW c \in Callers, RunDKGSession(c)
      PROVE  MaterialInv'
  BY <1>3 DEF RunDKGSession
<1>4. ASSUME NEW c \in Callers, NEW h \in Handles, RunDKGSessionWithPreParams(c, h)
      PROVE  MaterialInv'
  <2>1. CASE Consume(c, h) /\ pc' = [pc EXCEPT ![c] = "begin"]
    BY <1>4, <2>1 DEF RunDKGSessionWithPreParams, Consume
  <2>2. CASE UNCHANGED <<hstate, hmat, mat, supplied>> /\ pc' = [pc EXCEPT ![c] = "done"]
    BY <1>4, <2>2 DEF RunDKGSessionWithPreParams
  <2> QED
    BY <1>4, <2>1, <2>2 DEF RunDKGSessionWithPreParams
<1>5. ASSUME NEW c \in Callers, CallSteps(c)
      PROVE  MaterialInv'
  <2>1. CASE BeginDKGRun(c)
    BY <2>1 DEF BeginDKGRun, Ends
  <2>2. CASE RefuseRun(c)
    BY <2>2 DEF RefuseRun, Ends
  <2>3. CASE AttachPreParams(c)
    <3>1. CASE UNCHANGED <<fresh, mat>>
      BY <2>3, <3>1 DEF AttachPreParams
    <3>2. ASSUME NEW m \in fresh, fresh' = fresh \ {m}, mat' = [mat EXCEPT ![c] = m]
          PROVE  MaterialInv'
      BY <2>3, <3>2 DEF AttachPreParams
    <3> QED
      BY <2>3, <3>1, <3>2 DEF AttachPreParams
  <2>4. CASE AttachFails(c)
    BY <2>4 DEF AttachFails, Ends
  <2>5. CASE RunnerStarts(c)
    BY <2>5 DEF RunnerStarts, Ends
  <2>6. CASE RunnerRefuses(c)
    BY <2>6 DEF RunnerRefuses, Ends
  <2>7. CASE ECDSARunSucceeds(c)
    BY <2>7 DEF ECDSARunSucceeds, Ends
  <2>8. CASE EdDSARunSucceeds(c)
    BY <2>8 DEF EdDSARunSucceeds, Ends
  <2>9. CASE ProtocolFails(c)
    BY <2>9 DEF ProtocolFails, Ends
  <2>10. CASE ExportShare(c)
    BY <2>10 DEF ExportShare, Ends
  <2>11. CASE ExportFails(c)
    BY <2>11 DEF ExportFails, Ends
  <2>12. CASE SaveShare(c)
    BY <2>12 DEF SaveShare, Ends
  <2>13. CASE SaveFails(c)
    BY <2>13 DEF SaveFails, Ends
  <2>14. CASE DeleteTemporaryShare(c)
    BY <2>14 DEF DeleteTemporaryShare, Ends
  <2>15. CASE EndDKGRun(c)
    BY <2>15 DEF EndDKGRun, Ends
  <2> QED
    BY <1>5, <2>1, <2>2, <2>3, <2>4, <2>5, <2>6, <2>7, <2>8, <2>9, <2>10, <2>11, <2>12, <2>13, <2>14, <2>15 DEF CallSteps
<1> QED
  BY <1>1, <1>2, <1>3, <1>4, <1>5 DEF Next

\* Every step leaves the table entry of a call under way alone, or is that
\* call's own step.
LEMMA ShareStep == ServiceInv /\ Next => ShareInv'
<1> SUFFICES ASSUME ServiceInv, Next PROVE ShareInv'
  OBVIOUS
<1> USE ServiceAssumption
<1> USE DEF ServiceInv, TypeOK, ShareInv, OwnShareSaved, SuccessIsStored, RunKeyExclusive, Running, RunKey, handleVars, callVars
<1>1. ASSUME NEW h \in Handles, NEW s \in Services, AcquireDKGPreParams(h, s)
      PROVE  ShareInv'
  BY <1>1 DEF AcquireDKGPreParams
<1>2. ASSUME NEW h \in Handles, Discard(h)
      PROVE  ShareInv'
  BY <1>2 DEF Discard
<1>3. ASSUME NEW c \in Callers, RunDKGSession(c)
      PROVE  ShareInv'
  BY <1>3 DEF RunDKGSession
<1>4. ASSUME NEW c \in Callers, NEW h \in Handles, RunDKGSessionWithPreParams(c, h)
      PROVE  ShareInv'
  <2>1. CASE Consume(c, h) /\ pc' = [pc EXCEPT ![c] = "begin"]
    BY <1>4, <2>1 DEF RunDKGSessionWithPreParams, Consume
  <2>2. CASE UNCHANGED <<hstate, hmat, mat, supplied>> /\ pc' = [pc EXCEPT ![c] = "done"]
    BY <1>4, <2>2 DEF RunDKGSessionWithPreParams
  <2> QED
    BY <1>4, <2>1, <2>2 DEF RunDKGSessionWithPreParams
<1>5. ASSUME NEW c \in Callers, CallSteps(c)
      PROVE  ShareInv'
  <2>1. CASE BeginDKGRun(c)
    BY <2>1 DEF BeginDKGRun, Ends
  <2>2. CASE RefuseRun(c)
    BY <2>2 DEF RefuseRun, Ends
  <2>3. CASE AttachPreParams(c)
    BY <2>3 DEF AttachPreParams, Ends
  <2>4. CASE AttachFails(c)
    BY <2>4 DEF AttachFails, Ends
  <2>5. CASE RunnerStarts(c)
    BY <2>5 DEF RunnerStarts, Ends
  <2>6. CASE RunnerRefuses(c)
    BY <2>6 DEF RunnerRefuses, Ends
  <2>7. CASE ECDSARunSucceeds(c)
    BY <2>7 DEF ECDSARunSucceeds, Ends
  <2>8. CASE EdDSARunSucceeds(c)
    BY <2>8 DEF EdDSARunSucceeds, Ends
  <2>9. CASE ProtocolFails(c)
    BY <2>9 DEF ProtocolFails, Ends
  <2>10. CASE ExportShare(c)
    BY <2>10 DEF ExportShare, Ends
  <2>11. CASE ExportFails(c)
    BY <2>11 DEF ExportFails, Ends
  <2>12. CASE SaveShare(c)
    <3>1. got[c] = c /\ temp[RunKey(c)] = c
      BY <2>12 DEF SaveShare
    <3>2. saved' = [saved EXCEPT ![c] = c]
      BY <2>12, <3>1 DEF SaveShare
    <3>3. pc' = [pc EXCEPT ![c] = "cleanup"]
      BY <2>12 DEF SaveShare
    <3>4. UNCHANGED <<svc, key, ecdsa, temp, got, outcome>>
      BY <2>12 DEF SaveShare
    <3>5. OwnShareSaved' /\ SuccessIsStored'
      BY <3>2, <3>4
    <3>6. ASSUME NEW d \in Callers
          PROVE  /\ pc'[d] \in {"export", "save", "cleanup"} => temp'[RunKey(d)'] = d
                 /\ pc'[d] \in {"save", "cleanup"} => got'[d] = d
                 /\ pc'[d] = "cleanup" => saved'[d] = d
      <4>1. CASE d = c
        BY <4>1, <3>1, <3>2, <3>4
      <4>2. CASE d # c
        BY <4>2, <3>2, <3>3, <3>4
      <4> QED
        BY <4>1, <4>2
    <3>7. ASSUME NEW sk \in Services \X Keys, temp'[sk] # None
          PROVE  /\ RunKey(temp[sk])' = sk
                 /\ pc'[temp'[sk]] \in {"export", "save", "cleanup", "end", "done"}
                 /\ pc'[temp'[sk]] \in {"end", "done"} => outcome'[temp'[sk]] = "err"
      <4>1. temp'[sk] = temp[sk] /\ temp[sk] \in Callers
        BY <3>4, <3>7
      <4>2. CASE temp[sk] = c
        BY <4>1, <4>2, <3>3, <3>4, <3>7
      <4>3. CASE temp[sk] # c
        BY <4>1, <4>3, <3>3, <3>4, <3>7
      <4> QED
        BY <4>2, <4>3
    <3> QED
      BY <3>5, <3>6, <3>7
  <2>13. CASE SaveFails(c)
    <3>1. got[c] = c
      BY <2>13 DEF SaveFails
    <3>2. \/ saved' = saved
          \/ saved' = [saved EXCEPT ![c] = c]
      BY <2>13, <3>1 DEF SaveFails
    <3>3. /\ pc' = [pc EXCEPT ![c] = "end"]
          /\ outcome' = [outcome EXCEPT ![c] = "err"]
      BY <2>13 DEF SaveFails, Ends
    <3>4. UNCHANGED <<svc, key, ecdsa, temp, got>>
      BY <2>13 DEF SaveFails
    <3>5. OwnShareSaved' /\ SuccessIsStored'
      BY <3>1, <3>2, <3>3, <3>4
    <3>6. ASSUME NEW d \in Callers
          PROVE  /\ pc'[d] \in {"export", "save", "cleanup"} => temp'[RunKey(d)'] = d
                 /\ pc'[d] \in {"save", "cleanup"} => got'[d] = d
                 /\ pc'[d] = "cleanup" => saved'[d] = d
      BY <3>2, <3>3, <3>4
    <3>7. ASSUME NEW sk \in Services \X Keys, temp'[sk] # None
          PROVE  /\ RunKey(temp[sk])' = sk
                 /\ pc'[temp'[sk]] \in {"export", "save", "cleanup", "end", "done"}
                 /\ pc'[temp'[sk]] \in {"end", "done"} => outcome'[temp'[sk]] = "err"
      <4>1. temp'[sk] = temp[sk] /\ temp[sk] \in Callers
        BY <3>4, <3>7
      <4>2. CASE temp[sk] = c
        BY <4>1, <4>2, <3>3, <3>4, <3>7
      <4>3. CASE temp[sk] # c
        BY <4>1, <4>3, <3>3, <3>4, <3>7
      <4> QED
        BY <4>2, <4>3
    <3> QED
      BY <3>5, <3>6, <3>7
  <2>14. CASE DeleteTemporaryShare(c)
    BY <2>14 DEF DeleteTemporaryShare, Ends
  <2>15. CASE EndDKGRun(c)
    BY <2>15 DEF EndDKGRun, Ends
  <2> QED
    BY <1>5, <2>1, <2>2, <2>3, <2>4, <2>5, <2>6, <2>7, <2>8, <2>9, <2>10, <2>11, <2>12, <2>13, <2>14, <2>15 DEF CallSteps
<1> QED
  BY <1>1, <1>2, <1>3, <1>4, <1>5 DEF Next

\* Stuttering changes nothing.
LEMMA ServiceStutter == ServiceInv /\ UNCHANGED vars => ServiceInv'
  BY DEF ServiceInv, TypeOK, RunKeyExclusive, RunKey, MaterialInv,
         MaterialSpentOnce, ShareInv, OwnShareSaved, SuccessIsStored,
         vars, handleVars, callVars

\* The service keeps its run keys exclusive, its materials in one place and
\* its shares under their keys, for any number of concurrent calls of
\* RunDKGSession, RunDKGSessionWithPreParams and Discard.
THEOREM ServiceInvariant == Spec => []ServiceInv
<1>1. ServiceInv /\ [Next]_vars => ServiceInv'
  <2>1. ServiceInv /\ Next => ServiceInv'
    BY TypeStep, RunKeyStep, MaterialStep, ShareStep DEF ServiceInv
  <2> QED
    BY <2>1, ServiceStutter
<1> QED
  BY ServiceInit, <1>1, PTL DEF Spec

\* Pre-parameters are single-use: no interleaving of Consume, Discard and
\* pool acquires gives one set to two protocol runs, or to a run and a
\* successful discard.
THEOREM SingleUse == Spec => []MaterialSpentOnce
<1>1. ServiceInv => MaterialSpentOnce
  BY DEF ServiceInv, MaterialInv
<1> QED
  BY ServiceInvariant, <1>1, PTL

\* What a call has taken stays with it: no source, handle or other call gets
\* pre-parameters back from a call that was refused or failed.
THEOREM Burned == Spec => []BurnedNotReissued
<1>1. ServiceInv => BurnedNotReissued
  BY DEF ServiceInv, MaterialInv, BurnedNotReissued
<1> QED
  BY ServiceInvariant, <1>1, PTL

\* At most one run per session and party at a time, and activeDKGRuns never
\* keeps the key of a call that has ended.
THEOREM KeysExclusive == Spec => []RunKeyExclusive
<1>1. ServiceInv => RunKeyExclusive
  BY DEF ServiceInv
<1> QED
  BY ServiceInvariant, <1>1, PTL

\* What a call writes to the share store is the share of its own protocol run.
THEOREM PersistsOwnShare == Spec => []OwnShareSaved
<1>1. ServiceInv => OwnShareSaved
  BY DEF ServiceInv, ShareInv
<1> QED
  BY ServiceInvariant, <1>1, PTL

\* A reported DKG success means the share is in the store.
THEOREM SuccessStored == Spec => []SuccessIsStored
<1>1. ServiceInv => SuccessIsStored
  BY DEF ServiceInv, ShareInv
<1> QED
  BY ServiceInvariant, <1>1, PTL

\* A share that is not in the share store leaves the runner's table only for the
\* share of a later run under the same key, after its own call has failed and
\* returned.
THEOREM SharesKept == Spec => NoShareDropped
<1> DEFINE Unsaved(sk) ==
             temp[sk] # None /\ temp'[sk] # temp[sk] /\ saved[temp[sk]] # temp[sk]
           Kept == \A sk \in Services \X Keys : Unsaved(sk) =>
             /\ pc[temp[sk]] = "done" /\ outcome[temp[sk]] = "err"
             /\ temp'[sk] # None /\ pc[temp'[sk]] = "protocol"
<1>1. ServiceInv /\ [Next]_vars => [Kept]_vars
  <2> SUFFICES ASSUME ServiceInv, Next PROVE Kept
    OBVIOUS
  <2> USE ServiceAssumption DEF handleVars, callVars
  <2>1. CASE UNCHANGED temp
    BY <2>1
  <2>2. ASSUME NEW c \in Callers, ECDSARunSucceeds(c) PROVE Kept
    <3>1. pc[c] = "protocol" /\ temp' = [temp EXCEPT ![RunKey(c)] = c] /\ c # None
      BY <2>2 DEF ECDSARunSucceeds
    <3> SUFFICES ASSUME NEW sk \in Services \X Keys, Unsaved(sk)
                 PROVE  /\ pc[temp[sk]] = "done" /\ outcome[temp[sk]] = "err"
                        /\ temp'[sk] # None /\ pc[temp'[sk]] = "protocol"
      OBVIOUS
    <3>2. sk = RunKey(c) /\ temp'[sk] = c
      BY <3>1 DEF ServiceInv, TypeOK
    <3> DEFINE d == temp[sk]
    <3>3. /\ d \in Callers /\ RunKey(d) = sk
          /\ pc[d] \in {"export", "save", "cleanup", "end", "done"}
          /\ pc[d] \in {"end", "done"} => outcome[d] = "err"
      BY DEF ServiceInv, TypeOK, ShareInv
    <3>4. pc[d] \notin Running
      \* otherwise d and c would run under one key
      BY <3>1, <3>2, <3>3 DEF ServiceInv, RunKeyExclusive, Running
    <3> QED
      BY <3>1, <3>2, <3>3, <3>4 DEF Running
  <2>3. ASSUME NEW c \in Callers, DeleteTemporaryShare(c) PROVE Kept
    <3>1. temp[RunKey(c)] = c /\ saved[c] = c
      BY <2>3 DEF DeleteTemporaryShare, ServiceInv, ShareInv
    <3> QED
      BY <2>3, <3>1 DEF DeleteTemporaryShare, RunKey, ServiceInv, TypeOK
  <2>4. \/ UNCHANGED temp
        \/ \E c \in Callers : ECDSARunSucceeds(c) \/ DeleteTemporaryShare(c)
    BY DEF Next, CallSteps, AcquireDKGPreParams, Discard, RunDKGSession,
           RunDKGSessionWithPreParams, BeginDKGRun, RefuseRun,
           AttachPreParams, AttachFails, RunnerStarts, RunnerRefuses,
           EdDSARunSucceeds, ProtocolFails, ExportShare, ExportFails,
           SaveShare, SaveFails, EndDKGRun
  <2> QED
    BY <2>1, <2>2, <2>3, <2>4
<1> QED
  BY ServiceInvariant, <1>1, PTL DEF Spec, NoShareDropped

=============================================================================
