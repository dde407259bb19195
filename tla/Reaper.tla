------------------------------- MODULE Reaper -------------------------------
(***************************************************************************)
(* `prehnite reap` (cli.py) next to the MCP server: it reads the descriptors *)
(* twice, asks Docker for the containers and the snapshot images, and only   *)
(* then removes, one at a time, what no descriptor it read belongs to.  The  *)
(* server does not know of it and goes on between any two of these steps.    *)
(***************************************************************************)
EXTENDS SessionServer

CONSTANT MaxReaps   \* bound: runs of the command

ASSUME ReapsAssumption == MaxReaps \in Nat

VARIABLES
  rpc,      \* what the command does next
  kept,     \* live_session_ids and live_container_ids, as read
  victims,  \* orphans: containers still to be removed
  vimages,  \* orphan_snapshots: images still to be removed
  reaps,    \* runs of the command so far
  quiet,    \* history: no server has made a step since the command began
  whole     \* history: none of the command's own Docker calls has failed

reaper == <<rpc, kept, victims, vimages, reaps, quiet, whole>>

ReaperInit ==
  /\ Init
  /\ rpc = "off"
  /\ kept = [sids |-> {}, cids |-> {}]
  /\ victims = {} /\ vimages = {}
  /\ reaps = 0
  /\ quiet = TRUE /\ whole = TRUE

Exists(c) == cont[c] \in {"created", "running", "exited"}

\* A descriptor that does not parse is passed over.
Parses(s) == desc[s] \notin {None, "torn"}

-----------------------------------------------------------------------------
(* Broken variants of the steps below; no specification uses them.           *)

\* snapshots of live sessions count as orphans
ListAllImages ==
  /\ rpc = "images"
  /\ vimages' = {n \in Snaps : image[n] \in Sids}
  /\ rpc' = "remove"
  /\ UNCHANGED <<kept, victims, reaps, quiet, whole>>

\* only stopped containers are candidates
ListExited ==
  /\ rpc = "list"
  /\ victims' = {c \in Cids : cont[c] = "exited" /\ c \notin kept.cids}
  /\ rpc' = "images"
  /\ UNCHANGED <<kept, vimages, reaps, quiet, whole>>

-----------------------------------------------------------------------------
\* _live_session_ids
ReadSessions ==
  /\ rpc = "off"
  /\ reaps < MaxReaps
  /\ reaps' = reaps + 1
  /\ kept' = [kept EXCEPT !.sids = {s \in Sids : Parses(s)}]
  /\ rpc' = "cids"
  /\ quiet' = TRUE /\ whole' = TRUE
  /\ UNCHANGED <<victims, vimages>>

\* _live_session_container_ids, a second reading of the same files
ReadContainers ==
  /\ rpc = "cids"
  /\ kept' = [kept EXCEPT !.cids = {desc[s] : s \in {r \in Sids : Parses(r)}}]
  /\ rpc' = "list"
  /\ UNCHANGED <<victims, vimages, reaps, quiet, whole>>

\* _find_prehnite_containers, all=True: every container there is; none if Docker fails
ListContainers ==
  /\ rpc = "list"
  /\ \/ victims' = {c \in Cids : Exists(c) /\ c \notin kept.cids} /\ UNCHANGED whole
     \/ victims' = {} /\ whole' = FALSE
  /\ rpc' = "images"
  /\ UNCHANGED <<kept, vimages, reaps, quiet>>

\* _find_orphan_snapshot_images; none if Docker fails
ListImages ==
  /\ rpc = "images"
  /\ \/ vimages' = {n \in Snaps : image[n] \in Sids \ kept.sids} /\ UNCHANGED whole
     \/ vimages' = {} /\ whole' = FALSE
  /\ rpc' = "remove"
  /\ UNCHANGED <<kept, victims, reaps, quiet>>

\* c.remove(force=True); APIError is a warning.
RemoveContainer ==
  /\ rpc = "remove"
  /\ \E c \in victims :
       /\ victims' = victims \ {c}
       /\ \/ cont' = [cont EXCEPT ![c] = "removed"] /\ UNCHANGED whole
          \/ whole' = FALSE /\ UNCHANGED cont
  /\ UNCHANGED <<image, rpc, kept, vimages, reaps, quiet>>

\* client.images.remove, when the containers are through; APIError is a warning.
RemoveImage ==
  /\ rpc = "remove" /\ victims = {}
  /\ \E n \in vimages :
       /\ vimages' = vimages \ {n}
       /\ \/ image' = [image EXCEPT ![n] = "removed"] /\ UNCHANGED whole
          \/ whole' = FALSE /\ UNCHANGED image
  /\ UNCHANGED <<cont, rpc, kept, victims, reaps, quiet>>

\* The command is killed, or a Docker call raises another exception.
BreakOff ==
  /\ rpc # "off"
  /\ rpc' = "off" /\ victims' = {} /\ vimages' = {} /\ whole' = FALSE
  /\ UNCHANGED <<kept, reaps, quiet>>

\* Both loops are through.
Done ==
  /\ rpc = "remove" /\ victims = {} /\ vimages = {}
  /\ rpc' = "off"
  /\ UNCHANGED <<kept, victims, vimages, reaps, quiet, whole>>

Reap ==
  /\ \/ /\ ReadSessions \/ ReadContainers \/ ListContainers \/ ListImages
           \/ BreakOff \/ Done
        /\ UNCHANGED docker
     \/ RemoveContainer
     \/ RemoveImage
  /\ UNCHANGED <<disk, memory, handler, ran, damage, cut, crashes>>

ServerStep ==
  /\ Next
  /\ quiet' = FALSE
  /\ UNCHANGED <<rpc, kept, victims, vimages, reaps, whole>>

ReaperNext == Reap \/ ServerStep

ReaperSpec == ReaperInit /\ [][ReaperNext]_<<vars, reaper>>

-----------------------------------------------------------------------------
\* A reap that no server step disturbs, and whose own Docker calls succeed, leaves
\* exactly what descriptors pin: it cleans up after any kill and any handler that
\* failed, whichever call raised there (_cmd_reap).
CleansUp ==
  (rpc = "off" /\ reaps > 0 /\ quiet /\ whole) =>
    /\ \A c \in Cids : Exists(c) => \E s \in Sids : desc[s] = c
    /\ \A n \in Snaps : image[n] \in Sids => Parses(image[n])

\* ... and between two tool calls it takes nothing that a live session needs: not
\* its container, not the snapshots it can revert to.
SparesIdleSessions ==
  (quiet /\ rpc # "off" /\ \A p \in Servers : pc[p] \in {"idle", "down"}) =>
    \A p \in Servers : \A s \in live[p] :
      /\ box[p][s] # None => box[p][s] \notin victims
      /\ ids[p][s] \cap vimages = {}

\* docs/devlog/0018-container-reaper.md:46-48 "an MCP server with active sessions
\* can have the reaper run alongside it without ripping any active workspace out
\* from under an agent"; README.md:71-73.
ActiveIsSpared ==
  \A p \in Servers : \A s \in live[p] : box[p][s] # None => Exists(box[p][s])
=============================================================================
