------------------------------ MODULE RWMutex ------------------------------
(***************************************************************************)
(* Go's sync.RWMutex, as the methods of Store use it.  A writer that calls *)
(* Lock first announces itself: from then on readers who call RLock wait,  *)
(* and the writer takes the lock when the readers who had it have left.    *)
(* Unlock lets in all the readers who waited.                              *)
(***************************************************************************)
CONSTANT Nobody

VARIABLES
  readers,  \* goroutines that hold the lock for reading
  waiting,  \* goroutines that called RLock after a writer's announcement
  writer,   \* the goroutine whose Lock was announced, or Nobody
  held      \* whether that writer has the lock

mutex == <<readers, waiting, writer, held>>

Free ==
  /\ readers = {}
  /\ waiting = {}
  /\ writer = Nobody
  /\ held = FALSE

RLock(g) ==
  /\ IF writer = Nobody THEN readers' = readers \cup {g} /\ UNCHANGED waiting
                        ELSE waiting' = waiting \cup {g} /\ UNCHANGED readers
  /\ UNCHANGED <<writer, held>>

RUnlock(g) ==
  /\ readers' = readers \ {g}
  /\ UNCHANGED <<waiting, writer, held>>

Announce(g) ==
  /\ writer = Nobody
  /\ writer' = g
  /\ UNCHANGED <<readers, waiting, held>>

Acquire(g) ==
  /\ writer = g
  /\ readers = {}
  /\ held' = TRUE
  /\ UNCHANGED <<readers, waiting, writer>>

Unlock ==
  /\ readers' = waiting
  /\ waiting' = {}
  /\ writer' = Nobody
  /\ held' = FALSE

=============================================================================
