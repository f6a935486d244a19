----------------------------- MODULE PicodServer -----------------------------
(***************************************************************************)
(* PicoD, the daemon inside a sandbox: it runs commands under a timeout,   *)
(* and keeps the files that are uploaded to it.  Handlers are goroutines;  *)
(* a command is a process of its own, and may leave others behind that     *)
(* hold its output open.  The router calls it (RouterServer).              *)
(*                                                                         *)
(* There is one path that uploads and downloads are about.  A content is a *)
(* sequence of blocks, each the id of the request that wrote it: what a    *)
(* handler writes or reads at once.  What commands do to files is left     *)
(* out, and so are path checks, file modes and listings.                   *)
(***************************************************************************)
EXTENDS Integers, Sequences, FiniteSets

CONSTANTS
    Requests,   \* invocations
    Calls,      \* Calls[r]: what r may call
    Blocks      \* Blocks[c]: the blocks of what call c uploads

Uploads == {"multipart", "json"}
Nobody == "nobody"

ASSUME PicodAssumption ==
    /\ IsFiniteSet(Requests)
    /\ Nobody \notin Requests
    /\ Calls \in [Requests -> SUBSET (Uploads \cup {"execute", "download"})]
    /\ Blocks \in [Uploads -> Nat \ {0}]

VARIABLES
    picod,      \* whether the process is up
    call,       \* call[r]: the call that r makes
    pd,         \* pd[r]: where the handler of r is
    proc,       \* proc[r]: the process of the command of r
    late,       \* the requests whose timeout has passed
    held,       \* the requests whose output is held open by other processes
    file,       \* the content of the file, or NoFile
    opener,     \* the request that last opened the file for writing
    done,       \* done[r]: blocks written by an upload
    got,        \* got[r]: blocks read by a download
    size,       \* size[r]: the size a download has announced
    reply,      \* reply[r]: the answer of PicoD
    crossed     \* uploads and downloads that met another upload (history)

commandVars == <<proc, late, held>>
fileVars == <<file, opener, done, got, size, crossed>>
picodVars == <<picod, call, pd, commandVars, fileVars, reply>>

Hole == "hole"
NoFile == <<"absent">>

Commands == {"start", "run", "ran"}
Writing == {r \in Requests : pd[r] = "write"}
Reading == {r \in Requests : pd[r] = "read"}
Busy == {"open", "write", "find", "read"} \cup Commands

PicodTypeOK ==
    /\ picod \in {"up", "down"}
    /\ call \in [Requests -> Uploads \cup {"execute", "download", "none"}]
    /\ pd \in [Requests -> {"idle", "answered", "lost"} \cup Busy]
    /\ proc \in [Requests -> {"none", "alive", "ended", "killed"}]
    /\ late \subseteq Requests
    /\ held \subseteq Requests
    /\ file \in Seq(Requests \cup {Hole}) \cup {NoFile}
    /\ opener \in Requests \cup {Nobody}
    /\ done \in [Requests -> Nat]
    /\ got \in [Requests -> Seq(Requests \cup {Hole})]
    /\ size \in [Requests -> Nat]
    /\ reply \in [Requests -> {"none", "error", "own", "failed", "timeout", "stored", "sent"}]
    /\ crossed \subseteq Requests

PicodInit ==
    /\ picod = "up"
    /\ call = [r \in Requests |-> "none"]
    /\ pd = [r \in Requests |-> "idle"]
    /\ proc = [r \in Requests |-> "none"]
    /\ late = {} /\ held = {}
    /\ file = NoFile
    /\ opener = Nobody
    /\ done = [r \in Requests |-> 0]
    /\ got = [r \in Requests |-> <<>>]
    /\ size = [r \in Requests |-> 0]
    /\ reply = [r \in Requests |-> "none"]
    /\ crossed = {}

At(r, stage) == picod = "up" /\ pd[r] = stage
Goto(r, stage) == pd' = [pd EXCEPT ![r] = stage] /\ UNCHANGED reply
Answer(r, what) ==
    /\ pd' = [pd EXCEPT ![r] = "answered"]
    /\ reply' = [reply EXCEPT ![r] = what]

-----------------------------------------------------------------------------
\* Where the handler of a call begins once its request is accepted.
First(c) == IF c = "execute" THEN "start" ELSE IF c = "download" THEN "find" ELSE "open"

\* AuthMiddleware answers 401, and maxBodySizeMiddleware 413.
Refused(r) == Answer(r, "error")

\* The router's request reaches PicoD and passes the middleware, or does not.
Receive(r) ==
    /\ picod = "up"
    /\ pd[r] = "idle"
    /\ \E c \in Calls[r] :
          /\ call' = [call EXCEPT ![r] = c]
          /\ Refused(r) \/ Goto(r, First(c))
    /\ UNCHANGED <<picod, commandVars, fileVars>>

-----------------------------------------------------------------------------
\* ExecuteHandler.  The context ends at the timeout, and with nothing else:
\* not with the caller.
DeadlinePasses(r) ==
    /\ picod = "up"
    /\ pd[r] \in Commands
    /\ r \notin late
    /\ late' = late \cup {r}
    /\ UNCHANGED <<picod, call, pd, proc, held, fileVars, reply>>

\* The checks of the request's fields and directory; then cmd.Start, which may
\* fail, and does when the context has ended.
StartCommand(r) ==
    /\ At(r, "start")
    /\ \/ /\ r \notin late
          /\ proc' = [proc EXCEPT ![r] = "alive"]
          /\ Goto(r, "run")
       \/ Goto(r, "ran") /\ UNCHANGED proc
       \/ Answer(r, "error") /\ UNCHANGED proc
    /\ UNCHANGED <<picod, call, late, held, fileVars>>

\* The process ends, by itself or killed, and may leave others behind.
ProcessGone(r, how) ==
    /\ picod = "up"
    /\ proc[r] = "alive"
    /\ proc' = [proc EXCEPT ![r] = how]
    /\ held' \in {held, held \cup {r}}
    /\ UNCHANGED <<picod, call, pd, late, fileVars, reply>>

CommandEnds(r) == ProcessGone(r, "ended")

\* Mutant: the command is not bound to the context.
MutKillCommand(r) == r \in late /\ proc[r] = "none" /\ ProcessGone(r, "killed")

\* The goroutine of CommandContext kills the process when the context ends.
KillCommand(r) == r \in late /\ ProcessGone(r, "killed")

\* What the command left behind ends, or closes the output.
OutputClosed(r) ==
    /\ r \in held
    /\ held' = held \ {r}
    /\ UNCHANGED <<picod, call, pd, proc, late, fileVars, reply>>

\* cmd.Wait: the process is gone and its output read to the end.
RunReturns(r) ==
    /\ At(r, "run")
    /\ proc[r] # "alive"
    /\ r \notin held
    /\ Goto(r, "ran")
    /\ UNCHANGED <<picod, call, commandVars, fileVars>>

\* Mutant: the exit code is asked for before the context.
MutExitCode(r) ==
    IF proc[r] # "none" THEN "own" ELSE IF r \in late THEN "timeout" ELSE "failed"

\* The exit code: 124 after the timeout, that of the process, or 1 without one.
ExitCode(r) ==
    IF r \in late THEN "timeout" ELSE IF proc[r] # "none" THEN "own" ELSE "failed"

AnswerCommand(r) ==
    /\ At(r, "ran")
    /\ Answer(r, ExitCode(r))
    /\ UNCHANGED <<picod, call, commandVars, fileVars>>

-----------------------------------------------------------------------------
\* Mutant: the file is opened without O_TRUNC.
MutTruncated == IF file = NoFile THEN <<>> ELSE file

\* O_CREATE and O_TRUNC.
Truncated == <<>>

(***************************************************************************)
(* An upload: its checks, and then the file is created or emptied.  The    *)
(* multipart handler does so itself, the other one through os.WriteFile.   *)
(***************************************************************************)
OpenFile(r, c) ==
    /\ At(r, "open")
    /\ call[r] = c
    /\ \/ /\ file' = Truncated
          /\ opener' = r
          /\ crossed' = crossed \cup Reading
                          \cup (IF Writing = {} THEN {} ELSE Writing \cup {r})
          /\ Goto(r, "write")
       \/ Answer(r, "error") /\ UNCHANGED <<file, opener, crossed>>
    /\ UNCHANGED <<picod, call, commandVars, done, got, size>>

HandleMultipartUpload(r) == OpenFile(r, "multipart")
HandleJSONBase64Upload(r) == OpenFile(r, "json")

\* The k-th block is written by r; what was cut off before it reads as zeros.
Written(k, r) ==
    [i \in 1..(IF Len(file) > k THEN Len(file) ELSE k) |->
        IF i = k THEN r ELSE IF i <= Len(file) THEN file[i] ELSE Hole]

\* The write or, after the last block, the stat may fail, which is answered with
\* an error and leaves the file as it is.
WriteBlock(r) ==
    /\ At(r, "write")
    /\ \/ /\ file' = Written(done[r] + 1, r)
          /\ done' = [done EXCEPT ![r] = @ + 1]
          /\ IF done[r] + 1 = Blocks[call[r]]
               THEN Answer(r, "stored") \/ Answer(r, "error")
               ELSE Goto(r, "write")
       \/ Answer(r, "error") /\ UNCHANGED <<file, done>>
    /\ UNCHANGED <<picod, call, commandVars, opener, got, size, crossed>>

\* An upload is not finished, or broke off, or met another.
Torn == opener # Nobody /\ (opener \in crossed \/ done[opener] < Blocks[call[opener]])

\* DownloadFileHandler: the file is found and its size announced, ...
DownloadFile(r) ==
    /\ At(r, "find")
    /\ \/ /\ file # NoFile
          /\ size' = [size EXCEPT ![r] = Len(file)]
          /\ crossed' = IF Torn THEN crossed \cup {r} ELSE crossed
          /\ Goto(r, "read")
       \/ Answer(r, "error") /\ UNCHANGED <<size, crossed>>
    /\ UNCHANGED <<picod, call, commandVars, file, opener, done, got>>

\* Mutant: the content is read once instead of copied to its end.
MutReadBlock(r) ==
    /\ At(r, "read")
    /\ got' = [got EXCEPT ![r] = IF Len(file) = 0 THEN <<>> ELSE <<file[1]>>]
    /\ Answer(r, "sent")
    /\ UNCHANGED <<picod, call, commandVars, file, opener, done, size, crossed>>

\* ... and as much copied.  If the file has become shorter the connection is
\* cut, or, when the answer is compressed and carries no length, the answer ends.
ReadBlock(r) ==
    /\ At(r, "read")
    /\ \/ Len(got[r]) = size[r] /\ Answer(r, "sent") /\ UNCHANGED got
       \/ /\ Len(got[r]) < size[r] /\ Len(got[r]) < Len(file)
          /\ got' = [got EXCEPT ![r] = Append(@, file[Len(@) + 1])]
          /\ Goto(r, "read")
       \/ /\ Len(got[r]) < size[r] /\ Len(got[r]) >= Len(file)
          /\ Answer(r, "error") \/ Answer(r, "sent")
          /\ UNCHANGED got
    /\ UNCHANGED <<picod, call, commandVars, file, opener, done, size, crossed>>

-----------------------------------------------------------------------------
\* The signal: as soon as Shutdown has closed the listener, Start returns and
\* main with it.  Handlers end where they are.
PicodExits ==
    /\ picod = "up"
    /\ picod' = "down"
    /\ pd' = [r \in Requests |-> IF pd[r] \in Busy THEN "lost" ELSE pd[r]]
    /\ UNCHANGED <<call, commandVars, fileVars, reply>>

PicodHandler(r) ==
    \/ StartCommand(r)
    \/ RunReturns(r)
    \/ AnswerCommand(r)
    \/ HandleMultipartUpload(r)
    \/ HandleJSONBase64Upload(r)
    \/ WriteBlock(r)
    \/ DownloadFile(r)
    \/ ReadBlock(r)

PicodNext ==
    \/ \E r \in Requests :
          \/ PicodHandler(r)
          \/ DeadlinePasses(r)
          \/ CommandEnds(r)
          \/ KillCommand(r)
          \/ OutputClosed(r)
    \/ PicodExits
-----------------------------------------------------------------------------
(***************************************************************************)
(* A command is answered, at its timeout at the latest and also when its   *)
(* caller has gone, unless others hold its output open for ever            *)
(* (ExecuteHandler sets no WaitDelay).                                     *)
(***************************************************************************)
CommandAnswered ==
    \A r \in Requests :
        <>[](r \in held) \/ (pd[r] \in Commands ~> pd[r] \in {"answered", "lost"})

(***************************************************************************)
(* ExecuteHandler mistakes no command when its end and the timeout race: a *)
(* code of the command's own is told only of a command that ended by       *)
(* itself, 1 only where none was started, one that was killed is told as   *)
(* timed out, and 124 only once the timeout has passed.  It may have       *)
(* passed after the command ended by itself, before the handler looked.    *)
(***************************************************************************)
ExitCodeTold ==
    \A r \in Requests :
        /\ reply[r] = "own" => proc[r] = "ended"
        /\ reply[r] = "failed" => proc[r] = "none"
        /\ pd[r] = "answered" /\ proc[r] = "killed" => reply[r] = "timeout"
        /\ reply[r] = "timeout" => r \in late

(***************************************************************************)
(* When a command is answered its process is gone and its output complete. *)
(***************************************************************************)
CommandOver ==
    \A r \in Requests : pd[r] = "answered" => proc[r] # "alive" /\ r \notin held

(***************************************************************************)
(* What ExecuteHandler answers about a command is final, and as true of    *)
(* its process as ExitCodeTold says, however its end and its timeout race. *)
(***************************************************************************)
CommandTold == ExitCodeTold /\ CommandOver

Whole(r) == [i \in 1..Blocks[call[r]] |-> r]

(***************************************************************************)
(* An upload that was answered with 200 and met no other is in the file,   *)
(* whole and alone, until the next one opens it.                           *)
(***************************************************************************)
UploadKept ==
    opener # Nobody /\ reply[opener] = "stored" /\ opener \notin crossed =>
        file = Whole(opener)

(***************************************************************************)
(* A download of a file that one upload has finished alone, and that no    *)
(* other opens meanwhile, delivers what was uploaded, whole.               *)
(***************************************************************************)
DownloadWhole ==
    \A r \in Requests :
        reply[r] = "sent" /\ r \notin crossed =>
            \E u \in Requests : call[u] \in Uploads /\ got[r] = Whole(u)
=============================================================================
