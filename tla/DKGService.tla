---------------------------- MODULE DKGService ----------------------------
(***************************************************************************)
(* The DKG side of the service: concurrent RunDKGSession and               *)
(* RunDKGSessionWithPreParams calls (internal/tss/service/service.go and   *)
(* dkg.go), the single-use pre-parameter handles they consume              *)
(* (internal/preparams/handle.go), and the runner's table of temporary key *)
(* shares (internal/tssbnb/runner/bnb_runner.go).                          *)
(*                                                                         *)
(* A caller is one call of the public API.  Its steps are the points where *)
(* the call touches state shared with other calls: each is one critical    *)
(* section (Handle.mu, dkgMu, BnbRunner.mu) or one call of an external     *)
(* collaborator.  The protocol run is the module Execution, seen here as   *)
(* a step that ends with a share or with an error; the share a caller's    *)
(* protocol run produces is named after the caller.  Requests have passed  *)
(* the facade's Validate, so resolveDKGOutputKeyID and                     *)
(* normalizeDKGMaterial, which repeat its conditions, do not fail.         *)
(***************************************************************************)
EXTENDS Naturals, FiniteSets

CONSTANTS
    Services,    \* service instances, each with its own runner and binding
    Writers,     \* the services that were given a ShareWriter
    Sources,     \* the services that have a pool or an external source
    Callers,     \* DKG calls
    Keys,        \* DKGRunKey values: a session and a local party
    Handles,     \* handles AcquireDKGPreParams may create
    Materials,   \* sets of pre-parameters the sources can hand out
    None         \* no material, no share, no owner

ASSUME ServiceAssumption ==
    /\ Writers \subseteq Services
    /\ Sources \subseteq Services
    /\ None \notin Callers \cup Materials \cup Services
    /\ Callers \cap Handles = {}

VARIABLES
    hstate,      \* Handle.state of each handle, "unborn" before NewHandle
    howner,      \* Handle.binding, as the service it identifies
    hmat,        \* Handle.material
    fresh,       \* material no source has handed out yet
    pc,          \* where each call is
    svc, key,    \* the service and the run key a call is for
    ecdsa,       \* the calls whose algorithm is ECDSA
    supplied,    \* the calls that came with a handle
    mat,         \* suppliedPreParams, then job.ECDSAPreParams, of a call
    active,      \* activeDKGRuns of each service
    temp,        \* temporaryECDSADKGShares of each service's runner
    got,         \* the share a call exported from its runner
    saved,       \* the share a call's SaveShare wrote
    outcome,     \* "ok" or "err" once the call's result is decided
    spent        \* who a material went to: protocol runs and discards

handleVars == <<hstate, howner, hmat>>
callVars == <<svc, key, ecdsa, supplied>>
vars == <<handleVars, fresh, pc, callVars, mat, active, temp, got, saved,
          outcome, spent>>

RunKey(c) == <<svc[c], key[c]>>

Points == {"idle", "begin", "attach", "run", "protocol", "export", "save",
           "cleanup", "end", "done"}

\* Between a successful beginDKGRun and the deferred endDKGRun.
Running == {"attach", "run", "protocol", "export", "save", "cleanup", "end"}

Init ==
    /\ hstate = [h \in Handles |-> "unborn"]
    /\ howner = [h \in Handles |-> None]
    /\ hmat = [h \in Handles |-> None]
    /\ fresh = Materials
    /\ pc = [c \in Callers |-> "idle"]
    /\ svc \in [Callers -> Services]
    /\ key \in [Callers -> Keys]
    /\ ecdsa \in SUBSET Callers
    /\ supplied = {}
    /\ mat = [c \in Callers |-> None]
    /\ active = [s \in Services |-> {}]
    /\ temp = [sk \in Services \X Keys |-> None]
    /\ got = [c \in Callers |-> None]
    /\ saved = [c \in Callers |-> None]
    /\ outcome = [c \in Callers |-> "none"]
    /\ spent = [m \in Materials |-> {}]

--------------------------------------------------------------------------
(***************************************************************************)
(* Handles.                                                                *)
(***************************************************************************)

\* AcquireDKGPreParams and TryAcquireDKGPreParams when the source delivers;
\* a source that fails leaves everything as it was.
AcquireDKGPreParams(h, s) ==
    /\ hstate[h] = "unborn"
    /\ s \in Sources
    /\ \E m \in fresh :
         /\ fresh' = fresh \ {m}
         /\ hmat' = [hmat EXCEPT ![h] = m]
    /\ hstate' = [hstate EXCEPT ![h] = "acquired"]
    /\ howner' = [howner EXCEPT ![h] = s]
    /\ UNCHANGED <<pc, callVars, mat, active, temp, got, saved, outcome, spent>>

\* Discard of a handle nobody has consumed.  A second discard and a discard
\* after a consume change nothing.
Discard(h) ==
    /\ hstate[h] = "acquired"
    /\ hstate' = [hstate EXCEPT ![h] = "discarded"]
    /\ spent' = [spent EXCEPT ![hmat[h]] = @ \cup {h}]
    /\ hmat' = [hmat EXCEPT ![h] = None]
    /\ UNCHANGED <<howner, fresh, pc, callVars, mat, active, temp, got, saved,
                   outcome>>

\* Mutant of Consume: the handle keeps its material and its state.
ConsumeLeavesHandle(c, h) ==
    /\ howner[h] = svc[c]
    /\ hstate[h] = "acquired"
    /\ mat' = [mat EXCEPT ![c] = hmat[h]]
    /\ UNCHANGED <<hstate, hmat>>

\* Consume gives the material to the caller and empties the handle.
Consume(c, h) ==
    /\ howner[h] = svc[c]
    /\ hstate[h] = "acquired"
    /\ mat' = [mat EXCEPT ![c] = hmat[h]]
    /\ hstate' = [hstate EXCEPT ![h] = "consumed"]
    /\ hmat' = [hmat EXCEPT ![h] = None]

\* Consume refuses a foreign, a consumed and a discarded handle.
ConsumeRefuses(c, h) ==
    howner[h] # svc[c] \/ hstate[h] \in {"consumed", "discarded"}

--------------------------------------------------------------------------
(***************************************************************************)
(* RunDKGSession and RunDKGSessionWithPreParams.                           *)
(***************************************************************************)

RunDKGSession(c) ==
    /\ pc[c] = "idle"
    /\ pc' = [pc EXCEPT ![c] = "begin"]
    /\ UNCHANGED <<handleVars, fresh, callVars, mat, active, temp, got, saved,
                   outcome, spent>>

RunDKGSessionWithPreParams(c, h) ==
    /\ pc[c] = "idle"
    /\ hstate[h] # "unborn"
    /\ \/ /\ Consume(c, h)
          /\ pc' = [pc EXCEPT ![c] = "begin"]
          /\ supplied' = supplied \cup {c}
          /\ UNCHANGED outcome
       \/ /\ ConsumeRefuses(c, h)
          /\ pc' = [pc EXCEPT ![c] = "done"]
          /\ outcome' = [outcome EXCEPT ![c] = "err"]
          /\ UNCHANGED <<hstate, hmat, mat, supplied>>
    /\ UNCHANGED <<howner, fresh, svc, key, ecdsa, active, temp, got, saved,
                   spent>>

\* Mutant of BeginDKGRun: the run is registered without looking whether the
\* key is taken.
BeginDKGRunUnchecked(c) ==
    /\ pc[c] = "begin"
    /\ c \in ecdsa => svc[c] \in Writers
    /\ active' = [active EXCEPT ![svc[c]] = @ \cup {key[c]}]
    /\ pc' = [pc EXCEPT ![c] = "attach"]
    /\ UNCHANGED <<handleVars, fresh, callVars, mat, temp, got, saved, outcome,
                   spent>>

\* beginDKGRun, under dkgMu.
BeginDKGRun(c) ==
    /\ pc[c] = "begin"
    /\ c \in ecdsa => svc[c] \in Writers
    /\ key[c] \notin active[svc[c]]
    /\ active' = [active EXCEPT ![svc[c]] = @ \cup {key[c]}]
    /\ pc' = [pc EXCEPT ![c] = "attach"]
    /\ UNCHANGED <<handleVars, fresh, callVars, mat, temp, got, saved, outcome,
                   spent>>

\* Mutant of RefuseRun: endDKGRun is deferred before beginDKGRun is asked,
\* so a refused duplicate unregisters the run it lost to.
RefuseRunUnregisters(c) ==
    /\ pc[c] = "begin"
    /\ \/ c \in ecdsa /\ svc[c] \notin Writers
       \/ key[c] \in active[svc[c]]
    /\ active' = [active EXCEPT ![svc[c]] = @ \ {key[c]}]
    /\ pc' = [pc EXCEPT ![c] = "done"]
    /\ outcome' = [outcome EXCEPT ![c] = "err"]
    /\ UNCHANGED <<handleVars, fresh, callVars, mat, temp, got, saved, spent>>

\* Mutant of RefuseRun: a refused call gives its material back to the source.
RefuseRunReturnsMaterial(c) ==
    /\ pc[c] = "begin"
    /\ \/ c \in ecdsa /\ svc[c] \notin Writers
       \/ key[c] \in active[svc[c]]
    /\ pc' = [pc EXCEPT ![c] = "done"]
    /\ outcome' = [outcome EXCEPT ![c] = "err"]
    /\ fresh' = fresh \cup ({mat[c]} \ {None})
    /\ UNCHANGED <<handleVars, callVars, mat, active, temp, got, saved, spent>>

\* ErrShareWriterRequired, or ErrDuplicateDKGRun when the key is active.  The
\* material of a consumed handle is lost with the call.
RefuseRun(c) ==
    /\ pc[c] = "begin"
    /\ \/ c \in ecdsa /\ svc[c] \notin Writers
       \/ key[c] \in active[svc[c]]
    /\ pc' = [pc EXCEPT ![c] = "done"]
    /\ outcome' = [outcome EXCEPT ![c] = "err"]
    /\ UNCHANGED <<handleVars, fresh, callVars, mat, active, temp, got, saved,
                   spent>>

\* The call returns through the deferred endDKGRun with this outcome.
Ends(c, result) ==
    /\ pc' = [pc EXCEPT ![c] = "end"]
    /\ outcome' = [outcome EXCEPT ![c] = result]

\* job.ECDSAPreParams: the supplied material, material of the source, or
\* none when the service has no source (tss-lib then makes its own).
AttachPreParams(c) ==
    /\ pc[c] = "attach"
    /\ \/ /\ c \in ecdsa /\ c \notin supplied /\ svc[c] \in Sources
          /\ \E m \in fresh :
               /\ fresh' = fresh \ {m}
               /\ mat' = [mat EXCEPT ![c] = m]
       \/ /\ ~ (c \in ecdsa /\ c \notin supplied /\ svc[c] \in Sources)
          /\ UNCHANGED <<fresh, mat>>
    /\ pc' = [pc EXCEPT ![c] = "run"]
    /\ UNCHANGED <<handleVars, callVars, active, temp, got, saved, outcome,
                   spent>>

\* The source fails: empty pool, timeout, or a cancelled context.
AttachFails(c) ==
    /\ pc[c] = "attach"
    /\ c \in ecdsa /\ c \notin supplied /\ svc[c] \in Sources
    /\ Ends(c, "err")
    /\ UNCHANGED <<handleVars, fresh, callVars, mat, active, temp, got, saved,
                   spent>>

\* flow.RunDKG builds the execution and starts it.  An EdDSA job carries no
\* pre-parameters, even when the caller consumed a handle for it.
RunnerStarts(c) ==
    /\ pc[c] = "run"
    /\ spent' = [m \in Materials |->
                   IF c \in ecdsa /\ m = mat[c]
                   THEN spent[m] \cup {c} ELSE spent[m]]
    /\ pc' = [pc EXCEPT ![c] = "protocol"]
    /\ UNCHANGED <<handleVars, fresh, callVars, mat, active, temp, got, saved,
                   outcome>>

\* BuildParams or BuildDKG refuses the job.
RunnerRefuses(c) ==
    /\ pc[c] = "run"
    /\ Ends(c, "err")
    /\ UNCHANGED <<handleVars, fresh, callVars, mat, active, temp, got, saved,
                   spent>>

\* exec.Run returned nil: OnECDSAKeyShare stores the share of an ECDSA run.
ECDSARunSucceeds(c) ==
    /\ pc[c] = "protocol"
    /\ c \in ecdsa
    /\ temp' = [temp EXCEPT ![RunKey(c)] = c]
    /\ pc' = [pc EXCEPT ![c] = "export"]
    /\ UNCHANGED <<handleVars, fresh, callVars, mat, active, got, saved,
                   outcome, spent>>

\* An EdDSA run has no share to store: the call succeeds with its key id.
EdDSARunSucceeds(c) ==
    /\ pc[c] = "protocol"
    /\ c \notin ecdsa
    /\ Ends(c, "ok")
    /\ UNCHANGED <<handleVars, fresh, callVars, mat, active, temp, got, saved,
                   spent>>

ProtocolFails(c) ==
    /\ pc[c] = "protocol"
    /\ Ends(c, "err")
    /\ UNCHANGED <<handleVars, fresh, callVars, mat, active, temp, got, saved,
                   spent>>

\* buildECDSADKGOutput: ExportTemporaryECDSADKGShare finds a share.
ExportShare(c) ==
    /\ pc[c] = "export"
    /\ temp[RunKey(c)] # None
    /\ got' = [got EXCEPT ![c] = temp[RunKey(c)]]
    /\ pc' = [pc EXCEPT ![c] = "save"]
    /\ UNCHANGED <<handleVars, fresh, callVars, mat, active, temp, saved,
                   outcome, spent>>

\* ErrKeyShareNotFound, or a share whose public key does not encode.
ExportFails(c) ==
    /\ pc[c] = "export"
    /\ Ends(c, "err")
    /\ UNCHANGED <<handleVars, fresh, callVars, mat, active, temp, got, saved,
                   spent>>

\* Mutant of SaveShare: the writer's error is not looked at.
SaveShareUnchecked(c) ==
    /\ pc[c] = "save"
    /\ saved' \in {saved, [saved EXCEPT ![c] = got[c]]}
    /\ pc' = [pc EXCEPT ![c] = "cleanup"]
    /\ UNCHANGED <<handleVars, fresh, callVars, mat, active, temp, got,
                   outcome, spent>>

\* PersistKeyMaterialAfterDKG succeeds.
SaveShare(c) ==
    /\ pc[c] = "save"
    /\ saved' = [saved EXCEPT ![c] = got[c]]
    /\ pc' = [pc EXCEPT ![c] = "cleanup"]
    /\ UNCHANGED <<handleVars, fresh, callVars, mat, active, temp, got,
                   outcome, spent>>

\* Mutant of SaveFails: the temporary share is dropped when the writer fails.
SaveFailsAndDrops(c) ==
    /\ pc[c] = "save"
    /\ Ends(c, "err")
    /\ saved' \in {saved, [saved EXCEPT ![c] = got[c]]}
    /\ temp' = [temp EXCEPT ![RunKey(c)] = None]
    /\ UNCHANGED <<handleVars, fresh, callVars, mat, active, got, spent>>

\* The writer reports an error, whether or not the share reached its store;
\* the runner keeps its temporary share.
SaveFails(c) ==
    /\ pc[c] = "save"
    /\ Ends(c, "err")
    /\ saved' \in {saved, [saved EXCEPT ![c] = got[c]]}
    /\ UNCHANGED <<handleVars, fresh, callVars, mat, active, temp, got, spent>>

DeleteTemporaryShare(c) ==
    /\ pc[c] = "cleanup"
    /\ temp' = [temp EXCEPT ![RunKey(c)] = None]
    /\ Ends(c, "ok")
    /\ UNCHANGED <<handleVars, fresh, callVars, mat, active, got, saved, spent>>

\* Mutant of EndDKGRun: a failed call returns without unregistering its run.
EndDKGRunOnSuccess(c) ==
    /\ pc[c] = "end"
    /\ active' = [active EXCEPT ![svc[c]] =
                    IF outcome[c] = "ok" THEN @ \ {key[c]} ELSE @]
    /\ pc' = [pc EXCEPT ![c] = "done"]
    /\ UNCHANGED <<handleVars, fresh, callVars, mat, temp, got, saved, outcome,
                   spent>>

\* The deferred endDKGRun, then the return.
EndDKGRun(c) ==
    /\ pc[c] = "end"
    /\ active' = [active EXCEPT ![svc[c]] = @ \ {key[c]}]
    /\ pc' = [pc EXCEPT ![c] = "done"]
    /\ UNCHANGED <<handleVars, fresh, callVars, mat, temp, got, saved, outcome,
                   spent>>

--------------------------------------------------------------------------

\* The steps of a call that has been made.
CallSteps(c) ==
    \/ BeginDKGRun(c) \/ RefuseRun(c)
    \/ AttachPreParams(c) \/ AttachFails(c)
    \/ RunnerStarts(c) \/ RunnerRefuses(c)
    \/ ECDSARunSucceeds(c) \/ EdDSARunSucceeds(c) \/ ProtocolFails(c)
    \/ ExportShare(c) \/ ExportFails(c)
    \/ SaveShare(c) \/ SaveFails(c)
    \/ DeleteTemporaryShare(c) \/ EndDKGRun(c)

Next ==
    \/ \E h \in Handles, s \in Services : AcquireDKGPreParams(h, s)
    \/ \E h \in Handles : Discard(h)
    \/ \E c \in Callers : RunDKGSession(c)
    \/ \E c \in Callers, h \in Handles : RunDKGSessionWithPreParams(c, h)
    \/ \E c \in Callers : CallSteps(c)

Spec == Init /\ [][Next]_vars

\* Every step of a call is its own goroutine's; the protocol, the source and
\* the writer answer (Execution shows that a protocol run always returns).
FairSpec == Spec /\ \A c \in Callers : WF_vars(CallSteps(c))

--------------------------------------------------------------------------

\* Every variable holds a value of its kind.
TypeOK ==
    /\ hstate \in [Handles -> {"unborn", "acquired", "consumed", "discarded"}]
    /\ howner \in [Handles -> Services \cup {None}]
    /\ hmat \in [Handles -> Materials \cup {None}]
    /\ fresh \in SUBSET Materials
    /\ pc \in [Callers -> Points]
    /\ svc \in [Callers -> Services]
    /\ key \in [Callers -> Keys]
    /\ ecdsa \in SUBSET Callers
    /\ supplied \in SUBSET Callers
    /\ mat \in [Callers -> Materials \cup {None}]
    /\ active \in [Services -> SUBSET Keys]
    /\ temp \in [Services \X Keys -> Callers \cup {None}]
    /\ got \in [Callers -> Callers \cup {None}]
    /\ saved \in [Callers -> Callers \cup {None}]
    /\ outcome \in [Callers -> {"none", "ok", "err"}]
    /\ spent \in [Materials -> SUBSET (Callers \cup Handles)]

\* A set of pre-parameters goes to at most one protocol run or to one
\* successful Discard, never to two runs nor to both: handles are single-use
\* (handle.go) however consumes, discards and pool acquires interleave.
MaterialSpentOnce ==
    \A m \in Materials : \A x, y \in spent[m] : x = y

\* A call burns the material it has taken, wherever it ends: a handle consumed
\* for a duplicate run, without a writer, for an EdDSA job or for a protocol
\* that failed is not given out again, neither by the source nor by a handle
\* nor to another call (service.go:141 consumes first; dkg_flow_test.go:364,
\* TestRunDKGSessionWithPreParamsConsumesBeforeRunnerAndBurnsOnError).
BurnedNotReissued ==
    \A c \in Callers : mat[c] # None =>
      /\ mat[c] \notin fresh
      /\ \A h \in Handles : hmat[h] # mat[c]
      /\ \A d \in Callers \ {c} : mat[d] # mat[c]

\* activeDKGRuns holds exactly the keys of the calls between beginDKGRun and
\* endDKGRun, and no two of these share a service and a key, so a refused or
\* failed call neither unregisters another call's run nor leaves a key taken
\* (service.go beginDKGRun, endDKGRun).
RunKeyExclusive ==
    /\ \A s \in Services, k \in Keys :
         k \in active[s] <=>
           \E c \in Callers : pc[c] \in Running /\ RunKey(c) = <<s, k>>
    /\ \A c, d \in Callers :
         pc[c] \in Running /\ pc[d] \in Running /\ RunKey(c) = RunKey(d)
           => c = d

\* The share a call persists is the one its own protocol run produced, never
\* the share of a concurrent or an earlier run under the same key
\* (bnb_runner.go keeps one temporary share per key).
OwnShareSaved ==
    \A c \in Callers : saved[c] \in {c, None}

\* An ECDSA call that reports success has had its share written by the
\* ShareWriter (dkg.go persistECDSAShareAfterDKG before the output).
SuccessIsStored ==
    \A c \in Callers : outcome[c] = "ok" /\ c \in ecdsa => saved[c] = c

\* Until it is saved, the share of a run is lost in one way only: a later run
\* under the same key puts its own share in its place, and that only once the
\* call that made it has failed and returned.  The table entry is not emptied
\* by a writer that fails, and not taken over by a concurrent call
\* (bnb_runner.go:193 overwrites what it finds; dkg_flow_test.go:688,
\* TestRunDKGSession_PersistFailureKeepsRunnerShare, looks at a single call).
NoShareDropped ==
    [][\A sk \in Services \X Keys :
         temp[sk] # None /\ temp'[sk] # temp[sk] /\ saved[temp[sk]] # temp[sk] =>
           /\ pc[temp[sk]] = "done" /\ outcome[temp[sk]] = "err"
           /\ temp'[sk] # None /\ pc[temp'[sk]] = "protocol"]_vars

--------------------------------------------------------------------------
(***************************************************************************)
(* The inductive invariant behind these properties.                        *)
(***************************************************************************)

\* Material is in one place: unclaimed, in one handle, or with one caller.
MaterialInv ==
    /\ \A m \in fresh : spent[m] = {}
    /\ \A h \in Handles :
         /\ hstate[h] = "acquired" => hmat[h] \in Materials
         /\ hmat[h] # None => hmat[h] \notin fresh /\ spent[hmat[h]] = {}
    /\ \A h, g \in Handles : hmat[h] # None /\ hmat[h] = hmat[g] => h = g
    /\ \A c \in Callers :
         mat[c] # None => mat[c] \notin fresh /\ spent[mat[c]] \subseteq {c}
    /\ \A c \in Callers, h \in Handles : mat[c] # None => mat[c] # hmat[h]
    /\ \A c, d \in Callers : mat[c] # None /\ mat[c] = mat[d] => c = d
    /\ MaterialSpentOnce

\* From the end of its protocol run to the cleanup, a call's share is in the
\* runner's table under its key; a share that stays there is of a failed call.
ShareInv ==
    /\ \A sk \in Services \X Keys : temp[sk] # None =>
         /\ RunKey(temp[sk]) = sk
         /\ pc[temp[sk]] \in {"export", "save", "cleanup", "end", "done"}
         /\ pc[temp[sk]] \in {"end", "done"} => outcome[temp[sk]] = "err"
    /\ \A c \in Callers :
         /\ pc[c] \in {"export", "save", "cleanup"} => temp[RunKey(c)] = c
         /\ pc[c] \in {"save", "cleanup"} => got[c] = c
         /\ pc[c] = "cleanup" => saved[c] = c
    /\ OwnShareSaved
    /\ SuccessIsStored

\* Type correctness, exclusive run keys, and where materials and shares are:
\* every step of every interleaving of calls preserves this conjunction.
ServiceInv ==
    TypeOK /\ RunKeyExclusive /\ MaterialInv /\ ShareInv

\* A registered run key is released: whatever fails, the call that took it
\* ends and the key becomes available for a retry.
KeyReleased ==
    \A s \in Services, k \in Keys :
      k \in active[s] ~> k \notin active[s]

=============================================================================
