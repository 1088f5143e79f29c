---------------------------- MODULE ConfigReload ----------------------------
(***************************************************************************)
(* Hot reloading of twitch-integration.json                                *)
(* (cmd/twitch-integration/config.go, watchForConfigChanges, and           *)
(* loadConfig in c.go).                                                    *)
(*                                                                         *)
(* Every write to the file makes the watcher goroutine start a call of     *)
(* fnTriggerReload in a goroutine of its own.  A call first cancels the    *)
(* context of the call before it and makes a new one, under a mutex, then  *)
(* waits a second for its own cancellation, and then loads the file with   *)
(* nothing left to stop it.  A version of the file is a number.  A file    *)
(* that cannot be read counts as one that holds the default configuration, *)
(* and one that is not there is made, with the defaults in it.             *)
(***************************************************************************)
EXTENDS Naturals, FiniteSets

CONSTANTS
  Calls,      \* calls of fnTriggerReload; also bounds the number of writes
  NoCall,     \* no call has entered yet
  Default     \* the defaults, when no version of the file has them

ASSUME ReloadAssumption == IsFiniteSet(Calls) /\ NoCall \notin Calls /\ Default \notin Nat

VARIABLES
  ctxDone,    \* the session was shut down
  watching,   \* the watcher goroutine is in its loop
  file,       \* version of the file on disk
  missing,    \* ... which is not there at the moment
  notes,      \* write events the watcher has not received
  call,       \* where each call is
  newest,     \* the call whose context reloadCtx is
  cancelled,  \* calls whose own context was cancelled by a later call
  got,        \* the version each call has read
  active,     \* version of the configuration in use
  looked,     \* history: the version of the file when it was last looked at
  content     \* history: what readConfigJson returned last, without error

readVars == <<looked, content>>
vars == <<ctxDone, watching, file, missing, notes, call, newest, cancelled, got, active,
          readVars>>

-----------------------------------------------------------------------------
(* Broken variants, never part of Next. *)

(* fnTriggerReload without cancel(). *)
EnterWithoutCancel(k) ==
  /\ call[k] = "started"
  /\ newest' = k
  /\ call' = [call EXCEPT ![k] = "waiting"]
  /\ UNCHANGED <<ctxDone, watching, file, missing, notes, cancelled, got, active, readVars>>

(* cancel() after the new context was stored: a call cancels itself. *)
EnterCancellingItself(k) ==
  /\ call[k] = "started"
  /\ newest' = k
  /\ cancelled' = cancelled \cup {k}
  /\ call' = [call EXCEPT ![k] = "waiting"]
  /\ UNCHANGED <<ctxDone, watching, file, missing, notes, got, active, readVars>>

(* A call looks at its context again before it installs what it read. *)
ReplaceUnlessCancelled(k) ==
  /\ call[k] = "replace"
  /\ active' = IF ctxDone \/ k \in cancelled THEN active ELSE got[k]
  /\ call' = [call EXCEPT ![k] = "done"]
  /\ UNCHANGED <<ctxDone, watching, file, missing, notes, newest, cancelled, got, readVars>>

-----------------------------------------------------------------------------
(* Every write event is one call; the bound on their number. *)
Begun == {k \in Calls : call[k] # "idle"}
Room == notes + Cardinality(Begun) < Cardinality(Calls)

(* The user saves the file; the file system notes a write event ... *)
WriteFile ==
  /\ Room
  /\ file' = file + 1
  /\ missing' = FALSE
  /\ notes' = notes + 1
  /\ UNCHANGED <<ctxDone, watching, call, newest, cancelled, got, active, readVars>>

(* Removing or renaming the file is no write event. *)
RemoveFile ==
  /\ ~missing
  /\ missing' = TRUE
  /\ UNCHANGED <<ctxDone, watching, file, notes, call, newest, cancelled, got, active, readVars>>

(* ... and often more than one for the same save. *)
NoteAgain ==
  /\ Room
  /\ file > 0
  /\ notes' = notes + 1
  /\ UNCHANGED <<ctxDone, watching, file, missing, call, newest, cancelled, got, active, readVars>>

(* case event := <-watcher.Events: go fnTriggerReload(). *)
Trigger(k) ==
  /\ watching
  /\ notes > 0
  /\ call[k] = "idle"
  /\ notes' = notes - 1
  /\ call' = [call EXCEPT ![k] = "started"]
  /\ UNCHANGED <<ctxDone, watching, file, missing, newest, cancelled, got, active, readVars>>

(* case <-ctx.Done(): return. *)
WatcherStops ==
  /\ watching
  /\ ctxDone
  /\ watching' = FALSE
  /\ UNCHANGED <<ctxDone, file, missing, notes, call, newest, cancelled, got, active, readVars>>

(* The locked part of fnTriggerReload. *)
Enter(k) ==
  /\ call[k] = "started"
  /\ cancelled' = cancelled \cup ({newest} \cap Calls)
  /\ newest' = k
  /\ call' = [call EXCEPT ![k] = "waiting"]
  /\ UNCHANGED <<ctxDone, watching, file, missing, notes, got, active, readVars>>

(* case <-currentCtx.Done(). *)
GiveUp(k) ==
  /\ call[k] = "waiting"
  /\ k \in cancelled \/ ctxDone
  /\ call' = [call EXCEPT ![k] = "done"]
  /\ UNCHANGED <<ctxDone, watching, file, missing, notes, newest, cancelled, got, active, readVars>>

(* case <-time.After(time.Second): possible even when the context is done  *)
(* too, for select picks any case that is ready.                           *)
Elapse(k) ==
  /\ call[k] = "waiting"
  /\ call' = [call EXCEPT ![k] = "load"]
  /\ UNCHANGED <<ctxDone, watching, file, missing, notes, newest, cancelled, got, active, readVars>>

(* loadConfig: readConfigJson reads the file ... *)
Load(k) ==
  /\ call[k] = "load"
  /\ ~missing
  /\ got' = [got EXCEPT ![k] = file]
  /\ looked' = file /\ content' = file
  /\ call' = [call EXCEPT ![k] = "replace"]
  /\ UNCHANGED <<ctxDone, watching, file, missing, notes, newest, cancelled, active>>

(* ... which is an error if it is malformed ... *)
LoadFails(k) ==
  /\ call[k] = "load"
  /\ ~missing
  /\ looked' = file
  /\ call' = [call EXCEPT ![k] = "failed"]
  /\ UNCHANGED <<ctxDone, watching, file, missing, notes, newest, cancelled, got, active,
                 content>>

(* ... but none if it cannot be read: the defaults are returned. *)
LoadDefault(k) ==
  /\ call[k] = "load"
  /\ ~missing
  /\ got' = [got EXCEPT ![k] = Default]
  /\ looked' = file /\ content' = Default
  /\ call' = [call EXCEPT ![k] = "replace"]
  /\ UNCHANGED <<ctxDone, watching, file, missing, notes, newest, cancelled, active>>

(* os.IsNotExist ... *)
LoadMissing(k) ==
  /\ call[k] = "load"
  /\ missing
  /\ call' = [call EXCEPT ![k] = "create"]
  /\ UNCHANGED <<ctxDone, watching, file, missing, notes, newest, cancelled, got, active,
                 readVars>>

(* ... os.WriteFile with the defaults, whatever has been saved meanwhile;  *)
(* the write is an event like any other, as far as there is Room for it.   *)
CreateDefault(k) ==
  /\ call[k] = "create"
  /\ file' = file + 1
  /\ missing' = FALSE
  /\ notes' = IF Room THEN notes + 1 ELSE notes
  /\ got' = [got EXCEPT ![k] = file + 1]
  /\ looked' = file + 1 /\ content' = file + 1
  /\ call' = [call EXCEPT ![k] = "replace"]
  /\ UNCHANGED <<ctxDone, watching, newest, cancelled, active>>

(* Its error is not looked at. *)
CreateFails(k) ==
  /\ call[k] = "create"
  /\ got' = [got EXCEPT ![k] = Default]
  /\ looked' = file /\ content' = Default
  /\ call' = [call EXCEPT ![k] = "replace"]
  /\ UNCHANGED <<ctxDone, watching, file, missing, notes, newest, cancelled, active>>

(* ... then ReplaceConfig, which does nothing once the session is over. *)
Replace(k) ==
  /\ call[k] = "replace"
  /\ active' \in IF ctxDone THEN {active, got[k]} ELSE {got[k]}
  /\ call' = [call EXCEPT ![k] = "done"]
  /\ UNCHANGED <<ctxDone, watching, file, missing, notes, newest, cancelled, got, readVars>>

Shutdown ==
  /\ ~ctxDone
  /\ ctxDone' = TRUE
  /\ UNCHANGED <<watching, file, missing, notes, call, newest, cancelled, got, active, readVars>>

Init ==
  /\ ctxDone = FALSE
  /\ watching = TRUE
  /\ file = 0
  /\ missing = FALSE
  /\ notes = 0
  /\ call = [k \in Calls |-> "idle"]
  /\ newest = NoCall
  /\ cancelled = {}
  /\ got = [k \in Calls |-> 0]
  /\ active = 0
  /\ looked = 0
  /\ content = 0

ReadStep(k) ==
  Load(k) \/ LoadFails(k) \/ LoadDefault(k) \/ LoadMissing(k) \/ CreateDefault(k) \/ CreateFails(k)

CallStep(k) == Enter(k) \/ GiveUp(k) \/ Elapse(k) \/ ReadStep(k) \/ Replace(k)

Next ==
  \/ WriteFile
  \/ RemoveFile
  \/ NoteAgain
  \/ WatcherStops
  \/ Shutdown
  \/ \E k \in Calls : Trigger(k) \/ CallStep(k)

Spec == Init /\ [][Next]_vars

(* The watcher goroutine and every call keep running; a timer fires. *)
Fairness ==
  /\ WF_vars(WatcherStops \/ \E k \in Calls : Trigger(k))
  /\ \A k \in Calls : WF_vars(CallStep(k))

FairSpec == Spec /\ Fairness

-----------------------------------------------------------------------------
(* Properties. *)

(* Every variable has its type, and every write event starts one call. *)
TypeOK ==
  /\ ctxDone \in BOOLEAN /\ watching \in BOOLEAN /\ missing \in BOOLEAN
  /\ file \in Nat /\ looked \in 0..file
  /\ notes \in Nat /\ notes + Cardinality(Begun) <= Cardinality(Calls)
  /\ call \in [Calls -> {"idle", "started", "waiting", "load", "create", "replace", "done",
                         "failed"}]
  /\ newest \in Calls \cup {NoCall}
  /\ cancelled \subseteq Calls
  /\ got \in [Calls -> 0..file \cup {Default}]
  /\ active \in 0..file \cup {Default} /\ content \in 0..file \cup {Default}

(* Debouncing: of all the calls that wait for their second, the newest is  *)
(* the only one that nothing has cancelled, and nothing but a shutdown     *)
(* ever cancels it while it is the newest.                                 *)
OnlyNewestWaits ==
  /\ \A k \in Calls : call[k] = "waiting" => (k \in cancelled <=> k # newest)
  /\ newest \notin cancelled

(* Two calls are past their second at once; what they read and install is  *)
(* in no order.                                                            *)
Overlap ==
  \E j, k \in Calls : j # k /\ {call[j], call[k]} \subseteq {"load", "create", "replace"}

(* The configuration in use is what was read last, unless a call is about  *)
(* to install that, or the session is over.                                *)
UsedIsRead ==
  \/ ctxDone
  \/ active = content
  \/ \E k \in Calls : call[k] = "replace" /\ got[k] = content

(* ReplaceConfig brings nothing older than what was read last into use, be *)
(* it a save or the defaults for want of one, unless two calls overlap.    *)
LastReadIsUsed == [](~Overlap) => []UsedIsRead

(* The last save is never debounced away: some call looks at the file when *)
(* it is there, readable or not.  And in the end the configuration in use  *)
(* is the last one that could be read, unless two calls overlap: then the  *)
(* older of the two may be the last installed.                             *)
LastSaveIsUsed ==
  /\ <>[](ctxDone \/ looked = file)
  /\ [](~Overlap) => <>[](ctxDone \/ active = content)
=============================================================================
