------------------------------ MODULE Segment ------------------------------
(***************************************************************************)
(* The life cycle of one named segment (shm_comm/core.py) as the pattern   *)
(* endpoints drive it: an owner endpoint (Publisher, Pusher, Replier)      *)
(* calls create_segment when it is constructed and close_segment(destroy= *)
(* True) when it is closed, and its process may die at any point and be    *)
(* started again; attaching endpoints (Subscriber, Puller, Requester) call *)
(* attach_segment when constructed, read, and close_segment(destroy=False).*)
(*                                                                         *)
(* A segment is an identity 1 .. MaxCreates (0: the name is free); the    *)
(* header content kept is whether _init_header has stored MAGIC and       *)
(* VERSION yet, and whether it has gone on to store the geometry          *)
(* (NUM_SLOTS, SLOT_SIZE).  A segment stays mapped by the processes that  *)
(* opened it after its name is unlinked (POSIX shm_unlink semantics).     *)
(*                                                                         *)
(* Every SharedMemory(name, create=False) registers the name with the     *)
(* process's multiprocessing resource tracker (Python 3.10 to 3.12, which *)
(* setup.py allows, have no way to opt out), and nothing in the library   *)
(* unregisters it: when that process exits, the tracker unlinks the name. *)
(***************************************************************************)
EXTENDS Naturals

CONSTANTS
  Attachers,   \* the attaching endpoints
  MaxCreates   \* bound on create_segment calls (owner restarts) in a run


VARIABLES
  named,    \* the segment the OS name refers to, 0 when unlinked
  magic,    \* magic[s]: _init_header has stored MAGIC/VERSION into segment s
  layout,   \* layout[s]: ... and NUM_SLOTS/SLOT_SIZE
  opc,      \* where the owner process is
  oseg,     \* the segment the owner endpoint holds
  creates,  \* segments created so far (= identity of the newest)
  apc,      \* where each attaching endpoint is
  aseg,     \* the segment each attaching endpoint has mapped
  tracked,  \* tracked[a]: a's process has registered the name with its resource tracker
  orphaned  \* endpoints whose recv returned normally from an unlinked segment (history)

vars == <<named, magic, layout, opc, oseg, creates, apc, aseg, tracked, orphaned>>

SegIds == 1 .. MaxCreates
NoSeg == 0

OwnerStates == {"down", "stale", "create", "init", "layout", "up"}
AttacherStates == {"idle", "attaching", "attached", "failed", "timedout"}

-----------------------------------------------------------------------------
Init ==
  /\ named = NoSeg
  /\ magic = [s \in SegIds |-> FALSE]
  /\ layout = [s \in SegIds |-> FALSE]
  /\ opc = "down" /\ oseg = NoSeg /\ creates = 0
  /\ apc = [a \in Attachers |-> "idle"]
  /\ aseg = [a \in Attachers |-> NoSeg]
  /\ tracked = [a \in Attachers |-> FALSE]
  /\ orphaned = {}

(* The owner endpoint's constructor calls create_segment.                 *)
OwnerStart ==
  /\ opc = "down"
  /\ creates < MaxCreates
  /\ opc' = "stale"
  /\ UNCHANGED <<named, magic, layout, oseg, creates, apc, aseg, tracked, orphaned>>

(* create_segment first opens any segment under the name, closes and      *)
(* unlinks it (FileNotFoundError when there is none: pass).               *)
CleanStale ==
  /\ opc = "stale"
  /\ named' = NoSeg
  /\ opc' = "create"
  /\ UNCHANGED <<magic, layout, oseg, creates, apc, aseg, tracked, orphaned>>

(* SharedMemory(create=True): O_CREAT | O_EXCL, ftruncate, mmap; the new  *)
(* region reads as zero bytes.  The name is free here: CleanStale has just *)
(* unlinked it and only the owner creates under it.  (Before ftruncate    *)
(* the region is empty and an attacher's mmap fails like a missing name,  *)
(* so that window is not a state of its own.)                             *)
CreateShm ==
  /\ opc = "create"
  /\ creates' = creates + 1
  /\ named' = creates + 1
  /\ oseg' = creates + 1
  /\ opc' = "init"
  /\ UNCHANGED <<magic, layout, apc, aseg, tracked, orphaned>>

(* _init_header stores MAGIC and VERSION, the two cells _validate_header *)
(* checks ...                                                              *)
InitMagic ==
  /\ opc = "init"
  /\ magic' = [magic EXCEPT ![oseg] = TRUE]
  /\ opc' = "layout"
  /\ UNCHANGED <<named, layout, oseg, creates, apc, aseg, tracked, orphaned>>

(* ... then the zeroed cursors and counters and the geometry NUM_SLOTS,   *)
(* SLOT_SIZE; create_segment returns and the owner endpoint is open.      *)
InitLayout ==
  /\ opc = "layout"
  /\ layout' = [layout EXCEPT ![oseg] = TRUE]
  /\ opc' = "up"
  /\ UNCHANGED <<named, magic, oseg, creates, apc, aseg, tracked, orphaned>>

(* Owner close(): close_segment(shm, destroy=True), shm.close() then      *)
(* shm.unlink(), which unlinks the name the segment was created under.    *)
OwnerClose ==
  /\ opc = "up"
  /\ named' = NoSeg
  /\ opc' = "down"
  /\ oseg' = NoSeg
  /\ UNCHANGED <<magic, layout, creates, apc, aseg, tracked, orphaned>>

(* The owner's process dies (atexit hooks do not run): whatever it        *)
(* created stays under the name, initialised or not.                      *)
OwnerCrash ==
  /\ opc # "down"
  /\ opc' = "down"
  /\ oseg' = NoSeg
  /\ UNCHANGED <<named, magic, layout, creates, apc, aseg, tracked, orphaned>>

-----------------------------------------------------------------------------
(* An attaching endpoint is constructed and calls attach_segment; after   *)
(* close or an error it may be constructed again (spec 6: endpoints are   *)
(* safe to re-construct after any error).                                  *)
StartAttach(a) ==
  /\ apc[a] \in {"idle", "failed", "timedout"}
  /\ apc' = [apc EXCEPT ![a] = "attaching"]
  /\ aseg' = [aseg EXCEPT ![a] = NoSeg]
  /\ UNCHANGED <<named, magic, layout, opc, oseg, creates, tracked, orphaned>>

(* One iteration of the attach loop that finds the name: SharedMemory    *)
(* opens it and registers the name with the resource tracker, then       *)
(* _validate_header returns, or raises SHMConnectionError on a bad MAGIC, *)
(* which the loop re-raises at once.                                      *)
AttachOpen(a) ==
  /\ apc[a] = "attaching"
  /\ named # NoSeg
  /\ apc' = [apc EXCEPT ![a] = IF magic[named] THEN "attached" ELSE "failed"]
  /\ aseg' = [aseg EXCEPT ![a] = IF magic[named] THEN named ELSE NoSeg]
  /\ tracked' = [tracked EXCEPT ![a] = TRUE]
  /\ UNCHANGED <<named, magic, layout, opc, oseg, creates, orphaned>>

(* An iteration that finds no segment (FileNotFoundError) sleeps and      *)
(* retries, a stutter; once the deadline has passed the loop ends with    *)
(* SHMConnectionError.                                                    *)
AttachTimeout(a) ==
  /\ apc[a] = "attaching"
  /\ named = NoSeg
  /\ apc' = [apc EXCEPT ![a] = "timedout"]
  /\ UNCHANGED <<named, magic, layout, opc, oseg, creates, aseg, tracked, orphaned>>

(* recv on the mapped segment: it polls read_message_* on the mapping     *)
(* and never looks at the name, so it returns (a message or None) even    *)
(* when the segment has been unlinked.                                    *)
Recv(a) ==
  /\ apc[a] = "attached"
  /\ orphaned' = IF aseg[a] # named THEN orphaned \cup {a} ELSE orphaned
  /\ UNCHANGED <<named, magic, layout, opc, oseg, creates, apc, aseg, tracked>>

(* Attacher close(): close_segment(shm, destroy=False) only unmaps.       *)
AttacherClose(a) ==
  /\ apc[a] = "attached"
  /\ apc' = [apc EXCEPT ![a] = "idle"]
  /\ aseg' = [aseg EXCEPT ![a] = NoSeg]
  /\ UNCHANGED <<named, magic, layout, opc, oseg, creates, tracked, orphaned>>

(* The attaching endpoint's process exits, at any point (the end of the  *)
(* program, an exception): its resource tracker unlinks every name the   *)
(* process registered, that is, the name, whatever segment it now refers *)
(* to.  A new process may then construct the endpoint again.             *)
AttacherExit(a) ==
  /\ named' = IF tracked[a] THEN NoSeg ELSE named
  /\ apc' = [apc EXCEPT ![a] = "idle"]
  /\ aseg' = [aseg EXCEPT ![a] = NoSeg]
  /\ tracked' = [tracked EXCEPT ![a] = FALSE]
  /\ UNCHANGED <<magic, layout, opc, oseg, creates, orphaned>>

Next ==
  \/ OwnerStart \/ CleanStale \/ CreateShm \/ InitMagic \/ InitLayout
  \/ OwnerClose \/ OwnerCrash
  \/ \E a \in Attachers :
       StartAttach(a) \/ AttachOpen(a) \/ AttachTimeout(a)
       \/ Recv(a) \/ AttacherClose(a) \/ AttacherExit(a)

Spec == Init /\ [][Next]_vars

-----------------------------------------------------------------------------
(***************************************************************************)
(* Properties.                                                             *)
(***************************************************************************)
TypeOK ==
  /\ named \in SegIds \cup {NoSeg}
  /\ magic \in [SegIds -> BOOLEAN]
  /\ layout \in [SegIds -> BOOLEAN]
  /\ opc \in OwnerStates /\ oseg \in SegIds \cup {NoSeg}
  /\ creates \in 0 .. MaxCreates
  /\ apc \in [Attachers -> AttacherStates]
  /\ aseg \in [Attachers -> SegIds \cup {NoSeg}]
  /\ tracked \in [Attachers -> BOOLEAN]
  /\ orphaned \subseteq Attachers

(* Spec 4.2: the ring operations work "over a segment whose header is    *)
(* live".  Every endpoint attach_segment returned to maps a segment whose *)
(* geometry _init_header has stored; an endpoint that saw NUM_SLOTS =     *)
(* SLOT_SIZE = 0 would fail its first write_message with ValueError       *)
(* (max_payload = -4).                                                    *)
AttachSeesLayout ==
  \A a \in Attachers : apc[a] = "attached" => layout[aseg[a]]

(* "Attaching endpoints only detach, never unlink" (spec 3, lifecycle;   *)
(* spec 4.1: "only the owner destroys, ensuring attached readers aren't *)
(* yanked"): while an owner endpoint is open, the name refers to the     *)
(* segment it created, whatever the attaching endpoints did.             *)
OwnerKeepsName ==
  opc \in {"init", "layout", "up"} => named = oseg

(* Spec 8, boundary behaviours: "Attach before create: blocks until       *)
(* create, up to timeout_connect"; every segment here is created by an    *)
(* owner of this library, so attach_segment never fails on its header.    *)
AttachWaitsForCreate ==
  \A a \in Attachers : apc[a] # "failed"

(* Publisher.close's docstring: "Subscribers that are still attached will *)
(* fail gracefully on their next recv": no recv returns normally from a   *)
(* segment the owner has unlinked.                                        *)
OrphanRecvFails ==
  orphaned = {}

=============================================================================
