------------------------------- MODULE Store -------------------------------
(***************************************************************************)
(* The Store of one server: its RWMutex around ReadSnapshot, the two       *)
(* Queue... methods and Close, over the page a controller writes.          *)
(*                                                                         *)
(* Readers run ReadSnapshot load by load, as in SnapshotPage.  Callers are *)
(* further goroutines that call what Calls says; their work under the lock *)
(* is one step, since CommandPage has the detail of writeCommand.  The     *)
(* server never reaches its deferred Close, because log.Fatal exits; Close *)
(* is here as the method it is, callable at any time, any number of times. *)
(***************************************************************************)
EXTENDS SnapshotPage, RWMutex

CONSTANTS
  Callers,
  Calls     \* caller -> the methods it calls

ASSUME GoroutineAssumption ==
  /\ Readers \cap Callers = {}
  /\ Nobody \notin Callers
  /\ Calls \in [Callers -> SUBSET {"ReadSnapshot", "writeCommand", "Close"}]

VARIABLES
  mapped,  \* the two files are mapped
  job,     \* goroutine -> the method it runs, or "none"
  at       \* goroutine -> "idle", "called", "blocked", "in" or "leaving"

store == <<mapped, job, at>>
svars == <<vars, mutex, store>>

Goroutines == Readers \cup Callers
Methods(g) == IF g \in Readers THEN {"ReadSnapshot"} ELSE Calls[g]

StoreInit ==
  /\ Init
  /\ Free
  /\ mapped = TRUE
  /\ job = [g \in Goroutines |-> "none"]
  /\ at = [g \in Goroutines |-> "idle"]

Goes(g, stage) == at' = [at EXCEPT ![g] = stage]
Reading(g) == job[g] = "ReadSnapshot"

CallMethod(g, method) ==
  /\ at[g] = "idle"
  /\ Goes(g, "called")
  /\ job' = [job EXCEPT ![g] = method]
  /\ UNCHANGED <<vars, mutex, mapped>>

(* Lock and RLock, up to where they may block.                             *)
Arrive(g) ==
  /\ at[g] = "called"
  /\ IF Reading(g) THEN RLock(g) ELSE Announce(g)
  /\ Goes(g, "blocked")
  /\ UNCHANGED <<vars, mapped, job>>

Gets(g) ==
  /\ at[g] = "blocked"
  /\ IF Reading(g) THEN g \in readers /\ UNCHANGED mutex ELSE Acquire(g)
  /\ UNCHANGED <<mapped, job>>

(* Faulty variant of Refused: the length of the mapping is not looked at.  *)
RefusedNever(g) == FALSE

(* After Close both mappings are nil, shorter than any page.               *)
Refused(g) == ~mapped /\ job[g] # "Close"

(* os.ErrInvalid; what the goroutine's reply was before stays.             *)
Refuse(g) ==
  /\ Gets(g)
  /\ Refused(g)
  /\ Goes(g, "leaving")
  /\ UNCHANGED vars

Enter(g) ==
  /\ Gets(g)
  /\ ~Refused(g)
  /\ Goes(g, "in")
  /\ IF g \in Readers THEN Call(g) ELSE UNCHANGED vars

(* readSeqlockedPayload.                                                   *)
Read(r) ==
  /\ at[r] = "in"
  /\ ReaderStep(r)
  /\ IF pc'[r] = "idle" THEN Goes(r, "leaving") ELSE UNCHANGED at
  /\ UNCHANGED <<mutex, mapped, job>>

(* A caller's work: Close unmaps the files, whatever Unmap returns.        *)
Work(c) ==
  /\ at[c] = "in"
  /\ mapped' = (mapped /\ job[c] # "Close")
  /\ Goes(c, "leaving")
  /\ UNCHANGED <<vars, mutex, job>>

(* The deferred unlock.                                                    *)
Leave(g) ==
  /\ at[g] = "leaving"
  /\ IF Reading(g) THEN RUnlock(g) ELSE Unlock
  /\ Goes(g, "idle")
  /\ job' = [job EXCEPT ![g] = "none"]
  /\ UNCHANGED <<vars, mapped>>

Advance(g) ==
  \/ Arrive(g)
  \/ Refuse(g)
  \/ Enter(g)
  \/ g \in Readers /\ Read(g)
  \/ g \in Callers /\ Work(g)
  \/ Leave(g)

Controller ==
  /\ \/ WriteBegin \/ (\E c \in Cells : WriteCell(c)) \/ WriteEnd
     \/ WriterDies \/ WriterStarts
  /\ UNCHANGED <<mutex, store>>

StoreNext ==
  \/ Controller
  \/ \E g \in Goroutines : Advance(g) \/ \E m \in Methods(g) : CallMethod(g, m)

(* Goroutines that can run do run, and the mutex behind Lock, which only   *)
(* callers use, hands over to whoever waited longest; nothing is asked of  *)
(* the controller, nor that anybody calls.                                 *)
StoreFairness ==
  /\ \A g \in Goroutines : WF_svars(Advance(g))
  /\ \A c \in Callers : SF_svars(Arrive(c))

StoreSafety == StoreInit /\ [][StoreNext]_svars
StoreSpec == StoreSafety /\ StoreFairness

-----------------------------------------------------------------------------
(* No goroutine touches a page after Close has unmapped it, although a     *)
(* read stays in the page for many loads and retries: whoever is inside    *)
(* holds the lock in its mode, and whoever comes later looks first.        *)
NeverUnmapped ==
  /\ \A r \in Readers : pc[r] # "idle" => mapped
  /\ \A c \in Callers : at[c] = "in" /\ job[c] # "Close" => mapped

(* Every call of a method returns, also when readers retry on a page that  *)
(* a dead controller left odd while writers wait for them: a reader gives  *)
(* up, a writer waits for the readers before it only, and readers wait for *)
(* one writer only.                                                        *)
CallsReturn == \A g \in Goroutines : at[g] = "called" ~> at[g] = "idle"

=============================================================================
