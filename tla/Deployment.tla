----------------------------- MODULE Deployment -----------------------------
(* bimo deploy and bimo organize (bimo.mjs), several at once for the same  *)
(* deployment of one target: each builds and inspects its image, moves it  *)
(* to a remote target under a tag of its own, prepares the state           *)
(* directories, runs the controller in a container whose name belongs to   *)
(* the deployment, for a pod then the publisher, and cleans up.  A run     *)
(* that throws reaps the directories that are empty.                       *)
(*                                                                         *)
(* A command on the target is one step.  The controller is what the CLI    *)
(* sees of it: it records its run, then fills and empties the directories, *)
(* and ends.  Left out: the options and envelopes, the secrets, the        *)
(* progress stream, and the name a deploy gives the image on the target,   *)
(* which the reading commands use.                                         *)
EXTENDS Naturals, FiniteSets

CONSTANTS
    Clis,          \* invocations of the command
    Kinds,         \* the layouts they are for
    Runtimes,      \* the agent runtimes they ask for
    Targets,       \* "local", "remote"
    MaxFaults,     \* commands that fail, connections that break
    Nothing

(* DEPLOYMENT_LAYOUTS.                                                     *)
Layout(kind) ==
    CASE kind = "workflow" -> {"runs", "workspace"}
      [] kind = "organizer" -> {"runs", "worktrees"}
      [] kind = "pod" -> {"runs", "source", "worktrees", "snapshots"}

Directories == UNION {Layout(k) : k \in Kinds}

VARIABLES
    target,
    cli,           \* [pc, kind, runtime, image]
    built,         \* the runtime of the image the local tag names
    tags,          \* <<where, c>>: the transfer tags that exist
    late,          \* transfers given up whose load may still finish
    dir,           \* directory -> "absent", "bare" (made, or made by Docker
                   \* for a mount, owned by root) or "prepared"
    root,          \* the deployment's root directory exists
    full,          \* the directories that hold something
    controller,    \* [of, pc]: the container of that name
    cut,           \* directories it has mounted that were removed since
    recorded,      \* the runs on record
    result,        \* how the controllers of the Clis ended
    left,          \* Clis that detached, were cut off from a container that
                   \* runs on, or could not clean up
    swept,         \* Clis that had directories removed after preparing them
    faults

imageVars == <<built, tags, late>>
stateVars == <<dir, root, full, cut, recorded, swept>>
vars == <<target, cli, imageVars, stateVars, controller, result, left, faults>>

Idle == [of |-> Nothing, pc |-> "none"]

Init ==
    /\ target \in Targets
    /\ cli \in [Clis -> [pc : {"build"}, kind : Kinds, runtime : Runtimes,
                         image : {Nothing}]]
    /\ built = Nothing /\ tags = {} /\ late = {}
    /\ dir = [d \in Directories |-> "absent"] /\ root = FALSE
    /\ full = {} /\ controller = Idle /\ cut = {} /\ recorded = {}
    /\ result = [c \in Clis |-> Nothing]
    /\ left = {} /\ swept = {} /\ faults = 0

At(c, pc) == cli[c].pc = pc
Goto(c, pc) == cli' = [cli EXCEPT ![c].pc = pc]
Fault == faults < MaxFaults /\ faults' = faults + 1

-----------------------------------------------------------------------------
(* prepareImage.  docker build moves the tag that every Cli builds.        *)
Build(c) ==
    /\ At(c, "build")
    /\ \/ built' = cli[c].runtime /\ Goto(c, "inspect") /\ UNCHANGED faults
       \/ Fault /\ Goto(c, "ended") /\ UNCHANGED built
    /\ UNCHANGED <<target, tags, late, stateVars, controller, result, left>>

(* Mutant of Inspect: the runtime of what was built is not looked at.      *)
InspectUnchecked(c) ==
    /\ At(c, "inspect")
    /\ cli' = [cli EXCEPT ![c].image = built,
                          ![c].pc = IF target = "local" THEN "mkdir"
                                    ELSE "tag"]
    /\ UNCHANGED <<target, imageVars, stateVars, controller, result, left,
                   faults>>

(* docker image inspect of that tag; from here on the image is the ID.     *)
Inspect(c) ==
    /\ At(c, "inspect")
    /\ cli' = [cli EXCEPT ![c].image = built,
                          ![c].pc = IF built # cli[c].runtime THEN "ended"
                                    ELSE IF target = "local" THEN "mkdir"
                                    ELSE "tag"]
    /\ UNCHANGED <<target, imageVars, stateVars, controller, result, left,
                   faults>>

(* The transfer tag, made here and compared with what was inspected.       *)
TagLocal(c) ==
    /\ At(c, "tag")
    /\ \/ tags' = tags \cup {<<"local", c>>} /\ Goto(c, "transfer")
          /\ UNCHANGED faults
       \/ /\ Fault /\ Goto(c, "untagLocal")
          /\ \/ tags' = tags \cup {<<"local", c>>}
             \/ UNCHANGED tags
    /\ UNCHANGED <<target, built, late, stateVars, controller, result, left>>

(* transferImage: docker save into docker load over ssh.  One that is      *)
(* stopped, at the latest by its hard stop, may have delivered all the     *)
(* same, or deliver later.                                                 *)
Transfer(c) ==
    /\ At(c, "transfer")
    /\ \/ /\ tags' = tags \cup {<<"remote", c>>}
          /\ Goto(c, "verify")
          /\ UNCHANGED <<late, faults>>
       \/ /\ Fault /\ Goto(c, "untagRemote")
          /\ \/ tags' = tags \cup {<<"remote", c>>} /\ UNCHANGED late
             \/ late' = late \cup {c} /\ UNCHANGED tags
             \/ UNCHANGED <<tags, late>>
    /\ UNCHANGED <<target, built, stateVars, controller, result, left>>

LateLoad(c) ==
    /\ c \in late /\ <<"remote", c>> \notin tags
    /\ tags' = tags \cup {<<"remote", c>>}
    /\ UNCHANGED <<target, cli, built, late, stateVars, controller, result,
                   left, faults>>

(* The inspection on the target and, for a deploy, the name it gets there. *)
Verify(c) ==
    /\ At(c, "verify")
    /\ \/ Goto(c, "mkdir") /\ UNCHANGED faults
       \/ Fault /\ Goto(c, "untagRemote")
    /\ UNCHANGED <<target, imageVars, stateVars, controller, result, left>>

(* The catch of prepareImage and cleanupTransferredImage: both removals    *)
(* are tried, and that one fails is ignored.                               *)
Untag(c, where, next) ==
    /\ \/ tags' = tags \ {<<where, c>>} /\ UNCHANGED <<left, faults>>
       \/ Fault /\ left' = left \cup {c} /\ UNCHANGED tags
    /\ Goto(c, next)
    /\ UNCHANGED <<target, built, late, stateVars, controller, result>>

UntagRemote(c) == At(c, "untagRemote") /\ Untag(c, "remote", "untagLocal")
UntagLocal(c) == At(c, "untagLocal") /\ Untag(c, "local", "ended")

(* The finally of deploy and organizeRemote; nothing to remove when local. *)
Cleanup == IF target = "local" THEN "ended" ELSE "untagRemote"

-----------------------------------------------------------------------------
Dirs(c) == Layout(cli[c].kind)

(* prepareDeploymentState, the directories: mkdir -p on a remote target;   *)
(* ensureLocalStateRoot makes the root only.                               *)
Mkdir(c) ==
    /\ At(c, "mkdir")
    /\ \/ /\ root' = TRUE /\ swept' = swept \ {c} /\ UNCHANGED faults
          /\ dir' = [d \in Directories |->
                       IF target = "remote" /\ d \in Dirs(c)
                          /\ dir[d] = "absent" THEN "bare" ELSE dir[d]]
          /\ Goto(c, "own")
       \/ Fault /\ Goto(c, "reap") /\ UNCHANGED <<root, dir, swept>>
    /\ UNCHANGED <<target, imageVars, full, cut, recorded, controller, result,
                   left>>

(* Their modes and owners: chmod and chown, which fail where a directory   *)
(* is missing; internal-prepare makes what is missing and opens it.        *)
Own(c) ==
    /\ At(c, "own")
    /\ \/ /\ target = "remote" =>
               root /\ \A d \in Dirs(c) : dir[d] # "absent"
          /\ root' = TRUE
          /\ dir' = [d \in Directories |->
                       IF d \in Dirs(c) THEN "prepared" ELSE dir[d]]
          /\ Goto(c, "start") /\ UNCHANGED faults
       \/ /\ target = "remote"
          /\ ~root \/ \E d \in Dirs(c) : dir[d] = "absent"
          /\ Goto(c, "reap") /\ UNCHANGED <<root, dir, faults>>
       \/ Fault /\ Goto(c, "reap") /\ UNCHANGED <<root, dir>>
    /\ UNCHANGED <<target, imageVars, full, cut, recorded, controller, result,
                   left, swept>>

(* What docker run does for the directories it is to mount.                *)
Mount(ds) ==
    /\ root' = TRUE
    /\ dir' = [d \in Directories |->
                 IF d \in ds /\ dir[d] = "absent" THEN "bare" ELSE dir[d]]

(* docker run --name bimo-<deployment>-controller: refused while there is  *)
(* a container of that name.                                               *)
Start(c) ==
    /\ At(c, "start")
    /\ \/ /\ controller = Idle
          /\ controller' = [of |-> c, pc |-> "up"] /\ cut' = {}
          /\ Mount(Dirs(c)) /\ Goto(c, "wait") /\ UNCHANGED faults
       \/ /\ controller # Idle
          /\ Goto(c, "reap")
          /\ UNCHANGED <<controller, cut, root, dir, faults>>
       \/ /\ Fault
          /\ Goto(c, "reap") /\ UNCHANGED <<controller, cut, root, dir>>
    /\ UNCHANGED <<target, imageVars, full, recorded, result, left, swept>>

(* The controller returns; a pod's result is published.                    *)
Returned(c) ==
    /\ At(c, "wait") /\ result[c] # Nothing
    /\ Goto(c, IF result[c] = "failed" THEN "reap"
               ELSE IF cli[c].kind = "pod" THEN "publish" ELSE Cleanup)
    /\ UNCHANGED <<target, imageVars, stateVars, controller, result, left,
                   faults>>

(* The publisher's container, which fails for reasons of its own too.      *)
Publish(c) ==
    /\ At(c, "publish")
    /\ Mount({"runs", "source"} \cap Directories)
    /\ \E next \in {Cleanup, "reap"} : Goto(c, next)
    /\ UNCHANGED <<target, imageVars, full, cut, recorded, controller, result,
                   left, swept, faults>>

(* execute rejects (the connection, a limit on output or time) while the   *)
(* container runs on.                                                      *)
Sever(c) ==
    /\ At(c, "wait") /\ result[c] = Nothing
    /\ Fault /\ Goto(c, "reap") /\ left' = left \cup {c}
    /\ UNCHANGED <<target, imageVars, stateVars, controller, result>>

(* reapDeploymentState: rmdir of the layout's directories, then the root.  *)
(* Clis that prepared one of them, and a controller that has mounted one,  *)
(* are not asked.                                                          *)
Reap(c) ==
    /\ At(c, "reap")
    /\ Goto(c, Cleanup)
    /\ LET gone == {d \in Dirs(c) \ full : dir[d] # "absent"}
       IN  \/ /\ dir' = [d \in Directories |->
                           IF d \in gone THEN "absent" ELSE dir[d]]
              /\ root' = (root /\ \E d \in Directories : dir'[d] # "absent")
              /\ cut' = IF controller = Idle THEN cut
                        ELSE cut \cup (gone \cap Dirs(controller.of))
              /\ swept' = swept \cup {b \in Clis : Dirs(b) \cap gone # {}}
              /\ UNCHANGED <<left, faults>>
           \/ /\ Fault /\ left' = left \cup {c}
              /\ UNCHANGED <<dir, root, cut, swept>>
    /\ UNCHANGED <<target, imageVars, full, recorded, controller, result>>

(* SIGINT: armDetachNotice's handler exits at once, past every finally.    *)
Detach(c) ==
    /\ ~At(c, "ended")
    /\ Goto(c, "ended") /\ left' = left \cup {c}
    /\ UNCHANGED <<target, imageVars, stateVars, controller, result, faults>>

-----------------------------------------------------------------------------
(* The controller records its run first, then uses its directories.        *)
Record ==
    /\ controller.pc = "up" /\ "runs" \notin cut
    /\ controller' = [controller EXCEPT !.pc = "recorded"]
    /\ recorded' = recorded \cup {controller.of} /\ full' = full \cup {"runs"}
    /\ UNCHANGED <<target, cli, imageVars, dir, root, cut, swept, result, left,
                   faults>>

Use(d) ==
    /\ controller.pc = "recorded"
    /\ d \in Dirs(controller.of) \ (cut \cup {"runs"})
    /\ full' = IF d \in full THEN full \ {d} ELSE full \cup {d}
    /\ UNCHANGED <<target, cli, imageVars, dir, root, cut, swept, recorded,
                   controller, result, left, faults>>

(* It ends, and --rm frees its name.                                       *)
End ==
    /\ controller # Idle
    /\ \E r \in {"ok", "failed"} :
        /\ r = "ok" => controller.pc = "recorded"
        /\ result' = [result EXCEPT ![controller.of] = r]
    /\ controller' = Idle /\ cut' = {}
    /\ UNCHANGED <<target, cli, imageVars, dir, root, full, swept, recorded,
                   left, faults>>

Step(c) ==
    \/ Build(c) \/ Inspect(c) \/ TagLocal(c) \/ Transfer(c) \/ Verify(c)
    \/ UntagRemote(c) \/ UntagLocal(c)
    \/ Mkdir(c) \/ Own(c) \/ Start(c) \/ Returned(c) \/ Publish(c) \/ Reap(c)

Next ==
    \/ \E c \in Clis : Step(c) \/ LateLoad(c) \/ Sever(c) \/ Detach(c)
    \/ Record \/ End \/ \E d \in Directories : Use(d)

Spec == Init /\ [][Next]_vars

-----------------------------------------------------------------------------
(* The type invariant.  A directory holds something, and the root is       *)
(* there, only if they exist; what was cut off is a controller's.          *)
TypeOK ==
    /\ target \in Targets /\ built \in Runtimes \cup {Nothing}
    /\ \A c \in Clis : cli[c].image \in Runtimes \cup {Nothing}
    /\ tags \subseteq {"local", "remote"} \X Clis /\ late \subseteq Clis
    /\ dir \in [Directories -> {"absent", "bare", "prepared"}]
    /\ root \in BOOLEAN /\ (\E d \in Directories : dir[d] # "absent") => root
    /\ \A d \in full : dir[d] # "absent"
    /\ recorded \subseteq Clis /\ (recorded # {} => "runs" \in full)
    /\ controller = Idle => cut = {}
    /\ swept \subseteq Clis /\ left \subseteq Clis /\ faults \in 0..MaxFaults

(* A controller runs the agent runtime its Cli was asked for, though all   *)
(* build under one tag and each may find another's image there: the tag is *)
(* inspected and compared once, and the image's ID used from then on       *)
(* (prepareImage).                                                         *)
RuntimeAsked ==
    controller # Idle =>
        cli[controller.of].image = cli[controller.of].runtime

(* A Cli that ends has taken its transfer tag away on both sides, however  *)
(* it ends and wherever prepareImage fails, unless it was interrupted, a   *)
(* removal failed, or a load it had given up was finished afterwards.      *)
TagsRemoved ==
    \A c \in Clis : At(c, "ended") /\ c \notin left \cup late =>
        tags \cap ({"local", "remote"} \X {c}) = {}

(* A controller has the directories its Cli prepared, with their owners    *)
(* and modes and still mounted, unless a Cli that failed has swept them    *)
(* meanwhile (prepareDeploymentState, reapDeploymentState).                *)
PreparedButSwept ==
    controller # Idle /\ controller.of \notin swept =>
        cut = {} /\ \A d \in Dirs(controller.of) : dir[d] = "prepared"

(* Once all Clis have ended and no run is on record, nothing of the state  *)
(* they prepared is left, in whatever order they failed ("failed deploy    *)
(* and organize reap the empty deployment state they prepared", a test of  *)
(* the command line), unless one was interrupted, cut off or hindered.     *)
EmptyStateReaped ==
    (\A c \in Clis : At(c, "ended")) /\ left = {} /\ recorded = {} =>
        ~root /\ \A d \in Directories : dir[d] = "absent"

(* All of these at once: what holds at any moment between command lines    *)
(* that prepare, run and clean up the same deployment.                     *)
DeploySafety ==
    /\ TypeOK /\ RuntimeAsked /\ TagsRemoved /\ PreparedButSwept
    /\ EmptyStateReaped
=============================================================================
