------------------------ MODULE ArtifactVerification ------------------------
(***************************************************************************)
(* verify() of src/docker-runtime.mjs: the verifier (src/verify.mjs) runs  *)
(* the gates in a container, scans the output directory and serves it      *)
(* once; the controller then removes the container, copies the output to   *)
(* the run's artifact directory, locks the copy, scans it and compares it  *)
(* with what the verifier scanned.                                         *)
(*                                                                         *)
(* A process that a gate, or an agent before it, has left behind may write *)
(* to the output at any time.  A directory is listed once and its files    *)
(* are read one by one.  A digest is what was hashed.  A file operation    *)
(* that overruns the deadline is given up, but may still take effect.      *)
(***************************************************************************)
EXTENDS Integers, FiniteSets, FiniteSetsExt, Functions

CONSTANTS
    Files,       \* paths in the output directory
    Contents,    \* what a file may hold
    Size,        \* the size of each content
    Marked,      \* the contents that have the required marker
    SmokeFile,   \* the file the HTTP probe gets
    MaxBytes,    \* workflow.output.maxBytes
    MaxWrites    \* bound: writes by processes left behind

VARIABLES
    src,         \* the output directory
    version,     \* modification time and inode of each of its files
    writes,
    server,      \* the static server: none, up, or gone
    stubborn,    \* whether the server ignores SIGTERM
    at,          \* the step the verification is at
    todo,        \* the listed files still to be read
    open,        \* the file that is being read: its name, size and version
    scanned,     \* what the verifier has hashed: size and content by file
    dest,        \* the artifact directory: its files, or none
    mine,        \* destinationCreated
    late,        \* what was being created when the deadline passed
    result

artifact == <<dest, mine, late>>
container == <<server, stubborn, scanned>>
output == <<src, version, writes>>
vars == <<output, server, stubborn, at, todo, open, scanned,
          dest, mine, late, result>>

NoFile == [f \in {} |-> 0]
Absent == [there |-> FALSE, files |-> NoFile]
EmptyDir == [there |-> TRUE, files |-> NoFile]
Put(f, c, g) == [x \in DOMAIN g \cup {f} |-> IF x = f THEN c ELSE g[x]]
Drop(f, g) == [x \in DOMAIN g \ {f} |-> g[x]]
Trees(values) == UNION {[fs -> values] : fs \in SUBSET Files}
Bytes(g) == MapThenSumSet(LAMBDA f : g[f][1], DOMAIN g)

(* A file that was created and not written.                                *)
Nothing == "nothing"
Gates == {"test", "build", "smoke"}
Steps == Gates \cup {"list", "scan", "serve", "probe", "term", "kill", "rm",
    "mkdir", "copy", "lock", "rescan", "unlock", "unlink", "rmdir", "end"}

TypeOK ==
    /\ src \in Trees(Contents)
    /\ version \in [Files -> 0..MaxWrites] /\ writes \in 0..MaxWrites
    /\ server \in {"none", "up", "gone"} /\ stubborn \in BOOLEAN
    /\ server = "up" => at \in {"probe", "term", "kill"}
    /\ at \in Steps /\ todo \subseteq Files
    /\ open = <<>> \/ open \in Files \X Nat \X Nat
    /\ scanned \in Trees(Range(Size) \X Contents)
    /\ dest = Absent
         \/ dest \in [there : {TRUE}, files : Trees(Contents \cup {Nothing})]
    /\ mine \in BOOLEAN
    /\ late \subseteq Files \cup {"root"}
    /\ result \in {"none", "passed", "failed"}

Init ==
    /\ src \in Trees(Contents)
    /\ version = [f \in Files |-> 0] /\ writes = 0
    /\ server = "none" /\ stubborn \in BOOLEAN
    /\ at = "test" /\ todo = {} /\ open = <<>> /\ scanned = NoFile
    /\ dest \in {Absent, EmptyDir}
    /\ mine = FALSE /\ late = {} /\ result = "none"

(* A process left behind changes or removes a file.                        *)
LeftBehind ==
    /\ writes < MaxWrites /\ at # "end"
    /\ writes' = writes + 1
    /\ \E f \in Files :
         /\ \/ \E c \in Contents : src' = Put(f, c, src)
            \/ f \in DOMAIN src /\ src' = Drop(f, src)
         /\ version' = [version EXCEPT ![f] = writes']
    /\ UNCHANGED <<container, at, todo, open, artifact, result>>

-----------------------------------------------------------------------------
(* The verifier.  If it fails, or its time is up, so does verify().        *)

Fail ==
    /\ at' = "end" /\ result' = "failed"
    /\ UNCHANGED <<output, container, todo, open, artifact>>

Goto(step) == at' = step /\ UNCHANGED result

(* npm test, npm run build, npm run smoke: each within what is left of the *)
(* deadline.                                                               *)
Gate ==
    /\ at \in Gates
    /\ \/ Goto(CASE at = "test" -> "build" [] at = "build" -> "smoke"
                 [] at = "smoke" -> "list")
          /\ UNCHANGED <<output, container, todo, open, artifact>>
       \/ Fail

ListOutput ==
    /\ at = "list"
    /\ todo' = DOMAIN src /\ Goto("scan")
    /\ UNCHANGED <<output, container, open, artifact>>

(* lstat of the next file, and whether it still fits.                      *)
OpenOf(f) == <<f, Size[src[f]], version[f]>>
ScanStat ==
    /\ at = "scan" /\ open = <<>>
    /\ \E f \in todo :
         IF f \in DOMAIN src /\ Bytes(scanned) + OpenOf(f)[2] <= MaxBytes
         THEN /\ open' = OpenOf(f)
              /\ UNCHANGED <<output, container, at, todo, artifact, result>>
         ELSE Fail

(* readFile: the size hashed is the one of the lstat before.               *)
ScanRead ==
    /\ at = "scan" /\ open # <<>>
    /\ LET f == open[1] IN
         IF f \in DOMAIN src
         THEN /\ scanned' = Put(f, <<open[2], src[f]>>, scanned)
              /\ todo' = todo \ {f} /\ open' = <<>>
              /\ UNCHANGED <<output, server, stubborn, at, artifact, result>>
         ELSE Fail

ScanEnds ==
    /\ at = "scan" /\ open = <<>> /\ todo = {}
    /\ IF \E f \in DOMAIN scanned : scanned[f][2] \in Marked
       THEN /\ Goto("serve")
            /\ UNCHANGED <<output, container, todo, open, artifact>>
       ELSE Fail

(* verifyArtifactHttp: the server is started, asked once and stopped, in   *)
(* that order and whether or not the answer is the right one.              *)
Serve ==
    /\ at = "serve"
    /\ \/ /\ server' = "up" /\ Goto("probe")
          /\ UNCHANGED <<output, stubborn, scanned, todo, open,
                         artifact>>
       \/ Fail

Probe ==
    /\ at = "probe"
    /\ at' = "term"
    /\ result' = IF SmokeFile \in DOMAIN src /\ src[SmokeFile] \in Marked
                 THEN "none" ELSE "failed"
    /\ UNCHANGED <<output, container, todo, open, artifact>>

AfterServer == IF result = "failed" THEN "end" ELSE "rm"

(* stopServer: SIGTERM, a second, SIGKILL.                                 *)
StopServer ==
    /\ at \in {"term", "kill"}
    /\ IF at = "term" /\ stubborn
       THEN at' = "kill" /\ UNCHANGED server
       ELSE at' = AfterServer /\ server' = "gone"
    /\ UNCHANGED <<output, stubborn, scanned, todo, open,
                   artifact, result>>

-----------------------------------------------------------------------------
(* The controller.  A failure after the artifact directory was created     *)
(* removes it.  What was being created when the deadline passed may still  *)
(* come into being.                                                        *)

GiveUp(pending) ==
    /\ IF mine THEN at' = "unlock" /\ UNCHANGED result
               ELSE at' = "end" /\ result' = "failed"
    /\ open' = <<>> /\ late' = late \cup pending
    /\ UNCHANGED <<output, container, todo, dest, mine>>

RemoveContainer ==
    /\ at = "rm"
    /\ \/ /\ Goto("mkdir")
          /\ UNCHANGED <<output, container, todo, open, artifact>>
       \/ Fail

(* Mutant: the root, too, is created within the deadline.                  *)
MakeRootBounded ==
    /\ at = "mkdir"
    /\ IF dest.there
       THEN GiveUp({})
       ELSE \/ /\ dest' = EmptyDir /\ mine' = TRUE
               /\ todo' = DOMAIN src /\ Goto("copy")
               /\ UNCHANGED <<output, container, open, late>>
            \/ GiveUp({"root"})

(* mkdir of the root is waited for, and the deadline looked at afterwards. *)
(* The output is listed next.                                              *)
MakeRoot ==
    /\ at = "mkdir"
    /\ IF dest.there
       THEN GiveUp({})
       ELSE /\ dest' = EmptyDir /\ mine' = TRUE
            /\ todo' = DOMAIN src
            /\ at' \in {"copy", "unlock"}
            /\ UNCHANGED <<output, container, open, late, result>>

Receipt(tree) == [f \in DOMAIN tree |-> <<Size[tree[f]], tree[f]>>]

CopyStat ==
    /\ at = "copy" /\ open = <<>>
    /\ \E f \in todo :
         IF f \in DOMAIN src
              /\ Bytes(Receipt(dest.files)) + OpenOf(f)[2] <= MaxBytes
         THEN /\ open' = OpenOf(f)
              /\ UNCHANGED <<output, container, at, todo, artifact, result>>
         ELSE GiveUp({})

(* The file is read, its stat compared with the one before and its content *)
(* written to a new file of the artifact.                                  *)
CopyRead ==
    /\ at = "copy" /\ open # <<>>
    /\ LET f == open[1] IN
         \/ /\ f \in DOMAIN src /\ version[f] = open[3]
            /\ dest' = [dest EXCEPT !.files = Put(f, src[f], @)]
            /\ todo' = todo \ {f} /\ open' = <<>>
            /\ UNCHANGED <<output, container, at, mine, late, result>>
         \/ GiveUp({f})

CopyEnds ==
    /\ at = "copy" /\ open = <<>> /\ todo = {}
    /\ Goto("lock")
    /\ UNCHANGED <<output, container, todo, open, artifact>>

Lock ==
    /\ at = "lock"
    /\ \/ /\ Goto("rescan")
          /\ UNCHANGED <<output, container, todo, open, artifact>>
       \/ GiveUp({})

(* Mutant: only the number of files and bytes are compared.                *)
RescanCounts ==
    /\ at = "rescan"
    /\ \/ /\ DOMAIN dest.files = DOMAIN scanned
          /\ Bytes(Receipt(dest.files)) = Bytes(scanned)
          /\ at' = "end" /\ result' = "passed"
          /\ UNCHANGED <<output, container, todo, open, artifact>>
       \/ GiveUp({})

(* scanSnapshot of the locked copy, and sameArtifact.  After the deadline, *)
(* or cancelled, the artifact stays but verify() fails.                    *)
Rescan ==
    /\ at = "rescan"
    /\ \/ /\ Receipt(dest.files) = scanned
          /\ at' = "end" /\ result' \in {"passed", "failed"}
          /\ UNCHANGED <<output, container, todo, open, artifact>>
       \/ GiveUp({})

(* removeSnapshot: make writable, then remove what is listed and the       *)
(* directory.  If something was created meanwhile, that fails.             *)
Unlock ==
    /\ at = "unlock" /\ Goto("unlink")
    /\ UNCHANGED <<output, container, todo, open, artifact>>

Unlink ==
    /\ at = "unlink" /\ Goto("rmdir")
    /\ dest' = [dest EXCEPT !.files = NoFile]
    /\ UNCHANGED <<output, container, todo, open, mine, late>>

RemoveRoot ==
    /\ at = "rmdir"
    /\ at' = "end" /\ result' = "failed"
    /\ dest' = IF dest.files = NoFile THEN Absent ELSE dest
    /\ UNCHANGED <<output, container, todo, open, mine, late>>

(* An operation that was given up takes effect, or fails.                  *)
Late ==
    /\ \E p \in late :
         /\ late' = late \ {p}
         /\ dest' = IF p = "root"
                    THEN IF dest.there THEN dest ELSE EmptyDir
                    ELSE IF dest.there /\ p \notin DOMAIN dest.files
                         THEN [dest EXCEPT !.files = Put(p, Nothing, @)]
                         ELSE dest
    /\ UNCHANGED <<output, container, at, todo, open, mine, result>>

Verifier == Gate \/ ListOutput \/ ScanStat \/ ScanRead \/ ScanEnds
                \/ Serve \/ Probe \/ StopServer
Controller == RemoveContainer \/ MakeRoot \/ CopyStat \/ CopyRead
                \/ CopyEnds \/ Lock \/ Rescan \/ Unlock \/ Unlink \/ RemoveRoot
Next == Verifier \/ Controller \/ LeftBehind \/ Late

(* Every command and file operation returns, by its deadline if not before *)
(* (CommandRunner shows that of the commands).                             *)
Spec == Init /\ [][Next]_vars /\ WF_vars(Verifier) /\ WF_vars(Controller)

-----------------------------------------------------------------------------
(* The artifact of a passed verification is, file by file, what the        *)
(* verifier scanned, although neither the verifier nor the copy reads the  *)
(* output directory at one moment and it may be written to throughout.     *)
ArtifactIsScanned ==
    result = "passed" => dest.there /\ Receipt(dest.files) = scanned

(* "Root creation is intentionally awaited with trusted I/O so it cannot   *)
(* mutate after timeout cleanup": after a failure the artifact directory   *)
(* never comes into being, whatever is still under way.                    *)
NoLateArtifact ==
    [][result = "failed" /\ ~dest.there => ~dest'.there]_vars

(* An artifact directory that was there before is neither filled nor       *)
(* removed: a second verification cannot replace what a first one left.    *)
KeepsEarlierArtifact ==
    [][dest.there /\ ~mine => dest' = dest /\ ~mine']_vars

(* A failed verification leaves an artifact directory of its own only when *)
(* something overdue was created while it was being removed, or when the   *)
(* copy was already complete.                                              *)
FailureCleansUp ==
    result = "failed" /\ at = "end" /\ mine /\ dest.there
        => \/ \E f \in DOMAIN dest.files : dest.files[f] = Nothing
           \/ Receipt(dest.files) = scanned

(* verify() ends, also with a server that ignores SIGTERM.                 *)
VerificationEnds == <>(at = "end")

(* Both at once: what verify() leaves when it passes and when it fails.    *)
VerificationSafety ==
    /\ TypeOK /\ ArtifactIsScanned /\ FailureCleansUp

(* What no step of verify() does to an artifact directory: make one after  *)
(* a failure, or change one that was there before.                         *)
ArtifactKept ==
    /\ NoLateArtifact /\ KeepsEarlierArtifact
=============================================================================
