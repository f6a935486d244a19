---------------------------- MODULE RouterProofs ----------------------------
(***************************************************************************)
(* Proofs about PicodServer and RouterServer, for any number of            *)
(* invocations, any contents and any limit.                                *)
(***************************************************************************)
EXTENDS RouterServer, TLAPS, FiniteSetTheorems

(***************************************************************************)
(* How the handler of a command and its process keep in step.              *)
(***************************************************************************)
CommandInv ==
    \A r \in Requests :
        /\ pd[r] \notin {"run", "ran", "answered", "lost"} => proc[r] = "none"
        /\ proc[r] = "alive" => pd[r] \in {"run", "lost"}
        /\ r \in held => pd[r] \in {"run", "lost"}
        /\ proc[r] = "killed" => r \in late
        /\ reply[r] # "none" => pd[r] = "answered"

(***************************************************************************)
(* What the file holds while an upload that has met no other writes it,    *)
(* and after it.                                                           *)
(***************************************************************************)
Prefix(r, n) == [i \in 1..n |-> r]

UploadInv ==
    /\ \A r \in Requests :
          /\ pd[r] = "idle" => call[r] = "none"
          /\ pd[r] \in {"open", "write"} => call[r] \in Uploads
          /\ pd[r] \in {"idle", "open"} => done[r] = 0
          /\ pd[r] = "write" => done[r] < Blocks[call[r]]
          /\ pd[r] = "write" => opener # Nobody
          /\ pd[r] = "write" /\ opener \notin crossed => r = opener
          /\ reply[r] = "stored" => call[r] \in Uploads /\ done[r] = Blocks[call[r]]
    /\ opener = Nobody => file = NoFile
    /\ opener # Nobody =>
          /\ file \in Seq(Requests \cup {Hole})
          /\ call[opener] \in Uploads
          /\ pd[opener] \in {"write", "answered", "lost"}
          /\ done[opener] <= Blocks[call[opener]]
          /\ opener \notin crossed => file = Prefix(opener, done[opener])

(***************************************************************************)
(* What a download that has met no upload has read.                        *)
(***************************************************************************)
DownloadInv ==
    \A r \in Requests :
        /\ pd[r] \in {"idle", "find"} => got[r] = <<>>
        /\ pd[r] = "read" => opener # Nobody
        /\ pd[r] = "read" /\ r \notin crossed =>
              /\ opener \notin crossed
              /\ done[opener] = Blocks[call[opener]]
              /\ size[r] = Blocks[call[opener]]
              /\ Len(got[r]) <= size[r]
              /\ got[r] = Prefix(opener, Len(got[r]))

PicodInv ==
    PicodTypeOK /\ CommandInv /\ UploadInv /\ DownloadInv
        /\ ExitCodeTold /\ CommandOver /\ DownloadWhole

(***************************************************************************)
(* A prefix of n blocks has n blocks.                                      *)
(***************************************************************************)
LEMMA PrefixLen == ASSUME NEW r, NEW n \in Nat PROVE Len(Prefix(r, n)) = n
BY DEF Prefix

(***************************************************************************)
(* The initial state satisfies PicodInv.                                   *)
(***************************************************************************)
LEMMA PicodInitInv == PicodInit => PicodInv
<1> SUFFICES ASSUME PicodInit PROVE PicodInv
  OBVIOUS
<1> USE PicodAssumption DEF PicodInit
<1>1. PicodTypeOK
  BY DEF PicodTypeOK, Busy, Commands
<1>2. CommandInv /\ ExitCodeTold /\ CommandOver
  BY DEF CommandInv, ExitCodeTold, CommandOver
<1>3. UploadInv
  BY DEF UploadInv
<1>4. DownloadInv /\ DownloadWhole
  BY DEF DownloadInv, DownloadWhole
<1> QED  BY <1>1, <1>2, <1>3, <1>4 DEF PicodInv

(***************************************************************************)
(* Steps of commands leave what is known of files alone.                   *)
(***************************************************************************)
LEMMA FilesUntouched ==
    ASSUME PicodInv, NEW r \in Requests, UNCHANGED <<call, fileVars>>,
           \/ UNCHANGED pd
           \/ pd[r] \in Commands /\ \E s \in Commands \cup {"answered"} : pd' = [pd EXCEPT ![r] = s],
           \/ UNCHANGED reply
           \/ \E v \in {"own", "failed", "timeout", "error"} : reply' = [reply EXCEPT ![r] = v]
    PROVE  UploadInv' /\ DownloadInv' /\ DownloadWhole'
<1> USE PicodAssumption DEF PicodInv, PicodTypeOK, fileVars, Commands, Busy
<1>1. \A q \in Requests : reply'[q] \in {"stored", "sent"} => reply'[q] = reply[q]
  OBVIOUS
<1>2. \A q \in Requests : pd'[q] = pd[q] \/ (pd[q] \in Commands /\ pd'[q] \in Commands \cup {"answered"})
  OBVIOUS
<1>3. UploadInv'
  BY <1>1, <1>2, SMTT(30) DEF UploadInv, Prefix
<1>4. DownloadInv'
  BY <1>2 DEF DownloadInv, Prefix
<1>5. DownloadWhole'
  BY <1>1 DEF DownloadWhole, Whole
<1> QED  BY <1>3, <1>4, <1>5

(***************************************************************************)
(* Steps of commands keep PicodInv.                                        *)
(***************************************************************************)
LEMMA CommandStep ==
    ASSUME PicodInv, NEW r \in Requests,
           \/ StartCommand(r) \/ RunReturns(r) \/ AnswerCommand(r) \/ DeadlinePasses(r)
           \/ CommandEnds(r) \/ KillCommand(r) \/ OutputClosed(r)
    PROVE  PicodInv'
<1> USE PicodAssumption DEF PicodInv, At, Goto, Answer
<1>1. CASE StartCommand(r)
  <2> USE <1>1 DEF StartCommand
  <2>1. UploadInv' /\ DownloadInv' /\ DownloadWhole'
    BY FilesUntouched DEF Commands, PicodTypeOK
  <2>2. PicodTypeOK'
    <3>1. pd' \in [Requests -> {"idle", "answered", "lost"} \cup Busy]
      <4>1. \A s \in {"run", "ran", "answered"} : [pd EXCEPT ![r] = s] \in [Requests -> {"idle", "answered", "lost"} \cup Busy]
        BY DEF PicodTypeOK, Busy, Commands
      <4> QED  BY <4>1, Zenon
    <3>2. reply' \in [Requests -> {"none", "error", "own", "failed", "timeout", "stored", "sent"}]
      BY Zenon DEF PicodTypeOK
    <3>3. proc' \in [Requests -> {"none", "alive", "ended", "killed"}]
      BY DEF PicodTypeOK
    <3> QED  BY <3>1, <3>2, <3>3, Zenon DEF PicodTypeOK, fileVars
  <2>3. CommandInv' /\ ExitCodeTold' /\ CommandOver'
    <3>0. proc[r] = "none" /\ r \notin held
      BY DEF CommandInv
    <3>1. CASE UNCHANGED proc
      <4>1. CommandInv'
        BY <3>0, <3>1 DEF PicodTypeOK, CommandInv
      <4>2. ExitCodeTold' /\ CommandOver'
        BY <3>0, <3>1, ZenonT(40) DEF PicodTypeOK, ExitCodeTold, CommandOver
      <4> QED  BY <4>1, <4>2
    <3>2. CASE proc' = [proc EXCEPT ![r] = "alive"] /\ pd' = [pd EXCEPT ![r] = "run"]
      <4>1. CommandInv'
        BY <3>2 DEF PicodTypeOK, CommandInv
      <4>2. reply[r] = "none" /\ r \notin held
        BY Zenon DEF PicodTypeOK, CommandInv
      <4>3. ExitCodeTold' /\ CommandOver'
        BY <3>2, <4>2 DEF PicodTypeOK, ExitCodeTold, CommandOver
      <4> QED  BY <4>1, <4>3
    <3> QED  BY <3>1, <3>2
  <2> QED  BY <2>1, <2>2, <2>3
<1>2. CASE RunReturns(r)
  <2> USE <1>2 DEF RunReturns, commandVars
  <2>1. UploadInv' /\ DownloadInv' /\ DownloadWhole'
    BY FilesUntouched, ZenonT(20) DEF Commands, PicodTypeOK
  <2>2. PicodTypeOK'
    BY DEF PicodTypeOK, Busy, Commands, fileVars
  <2>3. CommandInv' /\ ExitCodeTold' /\ CommandOver'
    BY DEF PicodTypeOK, CommandInv, ExitCodeTold, CommandOver
  <2> QED  BY <2>1, <2>2, <2>3
<1>3. CASE AnswerCommand(r)
  <2> USE <1>3 DEF AnswerCommand, commandVars, ExitCode
  <2>1. UploadInv' /\ DownloadInv' /\ DownloadWhole'
    BY FilesUntouched, ZenonT(20) DEF Commands, PicodTypeOK
  <2>2. PicodTypeOK'
    BY DEF PicodTypeOK, Busy, Commands, fileVars
  <2>3. CommandInv' /\ ExitCodeTold' /\ CommandOver'
    BY DEF PicodTypeOK, CommandInv, ExitCodeTold, CommandOver
  <2> QED  BY <2>1, <2>2, <2>3
<1>4. CASE DeadlinePasses(r)
  <2> USE <1>4 DEF DeadlinePasses
  <2>1. UploadInv' /\ DownloadInv' /\ DownloadWhole'
    BY FilesUntouched
  <2>2. PicodTypeOK'
    BY DEF PicodTypeOK, fileVars
  <2>3. CommandInv' /\ ExitCodeTold' /\ CommandOver'
    BY DEF PicodTypeOK, CommandInv, ExitCodeTold, CommandOver
  <2> QED  BY <2>1, <2>2, <2>3
<1>5. ASSUME NEW how \in {"ended", "killed"}, ProcessGone(r, how), how = "killed" => r \in late
      PROVE  PicodInv'
  <2> USE <1>5 DEF ProcessGone
  <2>1. UploadInv' /\ DownloadInv' /\ DownloadWhole'
    BY FilesUntouched
  <2>2. PicodTypeOK'
    BY DEF PicodTypeOK, fileVars
  <2>3. CommandInv' /\ ExitCodeTold' /\ CommandOver'
    BY DEF PicodTypeOK, CommandInv, ExitCodeTold, CommandOver
  <2> QED  BY <2>1, <2>2, <2>3
<1>6. CASE OutputClosed(r)
  <2> USE <1>6 DEF OutputClosed
  <2>1. UploadInv' /\ DownloadInv' /\ DownloadWhole'
    BY FilesUntouched
  <2>2. PicodTypeOK'
    BY DEF PicodTypeOK, fileVars
  <2>3. CommandInv' /\ ExitCodeTold' /\ CommandOver'
    BY DEF PicodTypeOK, CommandInv, ExitCodeTold, CommandOver
  <2> QED  BY <2>1, <2>2, <2>3
<1>7. CASE CommandEnds(r)
  BY <1>5, <1>7 DEF CommandEnds
<1>8. CASE KillCommand(r)
  BY <1>5, <1>8 DEF KillCommand
<1> QED  BY <1>1, <1>2, <1>3, <1>4, <1>6, <1>7, <1>8

(***************************************************************************)
(* Steps of the other handlers leave what is known of commands alone.      *)
(***************************************************************************)
LEMMA CommandsUntouched ==
    ASSUME PicodInv, NEW r \in Requests, UNCHANGED commandVars,
           pd[r] \in {"idle", "open", "write", "find", "read"},
           \/ \E s \in {"start", "open", "write", "find", "read"} : Goto(r, s)
           \/ \E v \in {"error", "stored", "sent"} : Answer(r, v)
    PROVE  CommandInv' /\ ExitCodeTold' /\ CommandOver'
<1> USE DEF PicodInv, PicodTypeOK, commandVars, Goto, Answer
<1>1. proc[r] = "none" /\ r \notin held /\ reply[r] = "none"
  BY Zenon DEF CommandInv
<1>2. CommandInv'
  BY <1>1 DEF CommandInv
<1>3. ExitCodeTold'
  BY <1>1 DEF ExitCodeTold
<1>4. CommandOver'
  BY <1>1 DEF CommandOver
<1> QED  BY <1>2, <1>3, <1>4

(***************************************************************************)
(* The arrival of a request keeps PicodInv.                                *)
(***************************************************************************)
LEMMA ReceiveStep ==
    ASSUME PicodInv, NEW r \in Requests, Receive(r)
    PROVE  PicodInv'
<1> USE PicodAssumption DEF PicodInv, Receive, Refused, fileVars
<1>1. PICK c \in Calls[r] : call' = [call EXCEPT ![r] = c] /\ (Answer(r, "error") \/ Goto(r, First(c)))
  BY Zenon
<1>2. c \in Uploads \cup {"execute", "download"} /\ First(c) \in {"start", "open", "find"}
  BY DEF First
<1>3. First(c) = "open" => c \in Uploads
  BY <1>2 DEF First
<1>4. CommandInv' /\ ExitCodeTold' /\ CommandOver'
  BY <1>1, <1>2, CommandsUntouched
<1>5. pd'[r] \in {"start", "open", "find", "answered"} /\ reply'[r] \in {reply[r], "error"}
  BY <1>1, <1>2 DEF Goto, Answer, PicodTypeOK
<1>6. \A q \in Requests \ {r} : pd'[q] = pd[q] /\ reply'[q] = reply[q] /\ call'[q] = call[q]
  BY <1>1 DEF Goto, Answer, PicodTypeOK
<1>7. PicodTypeOK'
  <2>1. call' \in [Requests -> Uploads \cup {"execute", "download", "none"}]
    BY <1>1, <1>2 DEF PicodTypeOK
  <2>2. pd' \in [Requests -> {"idle", "answered", "lost"} \cup Busy]
    BY <1>1, <1>2, ZenonT(40) DEF PicodTypeOK, Goto, Answer, Busy, Commands
  <2>3. reply' \in [Requests -> {"none", "error", "own", "failed", "timeout", "stored", "sent"}]
    BY <1>1 DEF PicodTypeOK, Goto, Answer
  <2> QED  BY <2>1, <2>2, <2>3, Zenon DEF PicodTypeOK, commandVars
<1>8. UploadInv'
  <2>1. pd'[r] = "open" => call'[r] \in Uploads
    BY <1>1, <1>3 DEF Goto, Answer, PicodTypeOK
  <2>2. done[r] = 0 /\ opener # r /\ reply[r] = "none"
    BY DEF UploadInv, CommandInv, PicodTypeOK
  <2> QED  BY <2>1, <2>2, <1>5, <1>6 DEF UploadInv, PicodTypeOK, Prefix
<1>9. DownloadInv'
  BY <1>5, <1>6 DEF DownloadInv, UploadInv, PicodTypeOK, Prefix
<1>10. DownloadWhole'
  <2>1. reply[r] = "none" /\ call[r] \notin Uploads
    BY Zenon DEF UploadInv, CommandInv, PicodTypeOK, Uploads
  <2>2. ASSUME NEW q \in Requests, reply'[q] = "sent", q \notin crossed
        PROVE  \E u \in Requests : call'[u] \in Uploads /\ got[q] = Whole(u)'
    <3>1. reply[q] = "sent"
      BY <2>1, <2>2, <1>5, <1>6, Zenon
    <3>2. PICK u \in Requests : call[u] \in Uploads /\ got[q] = Whole(u)
      BY <2>2, <3>1 DEF DownloadWhole
    <3>3. u # r /\ call'[u] = call[u]
      BY <3>2, <2>1, <1>6
    <3> QED  BY <3>2, <3>3, Zenon DEF Whole
  <2> QED  BY <2>2, Zenon DEF DownloadWhole
<1> QED  BY <1>4, <1>7, <1>8, <1>9, <1>10

(***************************************************************************)
(* A handler that answers with an error and leaves the file keeps PicodInv *)
(* (the early returns of uploads and downloads).                           *)
(***************************************************************************)
LEMMA ErrorStep ==
    ASSUME PicodInv, NEW r \in Requests, pd[r] \in {"open", "write", "find", "read"},
           Answer(r, "error"), UNCHANGED <<picod, call, commandVars, fileVars>>
    PROVE  PicodInv'
<1> USE PicodAssumption DEF PicodInv, fileVars
<1>1. CommandInv' /\ ExitCodeTold' /\ CommandOver'
  BY CommandsUntouched
<1> USE DEF Answer
<1>2. PicodTypeOK'
  BY Zenon DEF PicodTypeOK, commandVars
<1>3. UploadInv'
  BY ZenonT(40) DEF UploadInv, PicodTypeOK, Prefix
<1>4. DownloadInv'
  BY DEF DownloadInv, PicodTypeOK, Prefix
<1>5. DownloadWhole'
  BY DEF DownloadWhole, PicodTypeOK, Whole
<1> QED  BY <1>1, <1>2, <1>3, <1>4, <1>5

(***************************************************************************)
(* Opening the file keeps PicodInv: whoever writes or reads it is crossed. *)
(***************************************************************************)
LEMMA OpenStep ==
    ASSUME PicodInv, NEW r \in Requests, NEW c, OpenFile(r, c)
    PROVE  PicodInv'
<1> USE PicodAssumption DEF PicodInv, At
<1>1. CASE Answer(r, "error") /\ UNCHANGED <<file, opener, crossed>>
  BY <1>1, ErrorStep DEF OpenFile, fileVars
<1>2. CASE /\ file' = Truncated
           /\ opener' = r
           /\ crossed' = crossed \cup Reading \cup (IF Writing = {} THEN {} ELSE Writing \cup {r})
           /\ Goto(r, "write")
  <2> USE <1>2 DEF OpenFile
  <2>1. CommandInv' /\ ExitCodeTold' /\ CommandOver'
    BY CommandsUntouched
  <2> USE DEF Goto, Truncated
  <2>2. PicodTypeOK'
    BY DEF PicodTypeOK, Busy, Commands, commandVars, Reading, Writing
  <2>3. crossed \subseteq crossed' /\ Reading \subseteq crossed'
    OBVIOUS
  <2>4. r \notin crossed' => Writing = {}
    OBVIOUS
  <2>5. UploadInv'
    <3>1. call[r] \in Uploads /\ done[r] = 0 /\ r # Nobody /\ 0 < Blocks[call[r]]
      BY DEF UploadInv, Uploads
    <3>2. <<>> = Prefix(r, 0) /\ <<>> \in Seq(Requests \cup {Hole})
      BY DEF Prefix
    <3>3. \A q \in Requests : q # r => pd'[q] = pd[q]
      BY DEF PicodTypeOK
    <3>4. pd'[r] = "write"
      BY DEF PicodTypeOK
    <3>5. ASSUME NEW q \in Requests, pd'[q] = "write", r \notin crossed'
          PROVE  q = r
      BY <2>4, <3>3, <3>5 DEF Writing
    <3> QED  BY <3>1, <3>2, <3>3, <3>4, <3>5 DEF UploadInv, Prefix
  <2>6. DownloadInv'
    BY <2>3 DEF DownloadInv, PicodTypeOK, Reading, Prefix
  <2>7. DownloadWhole'
    BY <2>3, ZenonT(40) DEF DownloadWhole, Whole
  <2> QED  BY <2>1, <2>2, <2>5, <2>6, <2>7
<1> QED  BY <1>1, <1>2, Zenon DEF OpenFile

(***************************************************************************)
(* A sequence with one element put in, and filled up to it, is a sequence. *)
(***************************************************************************)
LEMMA FilledSeq ==
    ASSUME NEW S, NEW f \in Seq(S), NEW k \in Nat, NEW n \in Nat, NEW x \in S, NEW h \in S
    PROVE  [i \in 1..n |-> IF i = k THEN x ELSE IF i <= Len(f) THEN f[i] ELSE h] \in Seq(S)
<1>1. \A i \in 1..n : (IF i = k THEN x ELSE IF i <= Len(f) THEN f[i] ELSE h) \in S
  OBVIOUS
<1> QED  BY <1>1

(***************************************************************************)
(* Writing a block keeps PicodInv.                                         *)
(***************************************************************************)
LEMMA WriteStep ==
    ASSUME PicodInv, NEW r \in Requests, WriteBlock(r)
    PROVE  PicodInv'
<1> USE PicodAssumption DEF PicodInv, At
<1>1. CASE Answer(r, "error") /\ UNCHANGED <<file, done>>
  BY <1>1, ErrorStep, Zenon DEF WriteBlock, fileVars
<1>2. CASE /\ file' = Written(done[r] + 1, r)
           /\ done' = [done EXCEPT ![r] = @ + 1]
           /\ IF done[r] + 1 = Blocks[call[r]]
                THEN Answer(r, "stored") \/ Answer(r, "error")
                ELSE Goto(r, "write")
  <2> USE <1>2 DEF WriteBlock
  <2>1. CommandInv' /\ ExitCodeTold' /\ CommandOver'
    BY CommandsUntouched, Zenon
  <2>2. /\ call[r] \in Uploads /\ done[r] \in Nat /\ done[r] < Blocks[call[r]]
        /\ Blocks[call[r]] \in Nat /\ opener # Nobody
        /\ file \in Seq(Requests \cup {Hole}) /\ Len(file) \in Nat
        /\ done[r] # Blocks[call[r]]
    BY SMTT(20) DEF UploadInv, PicodTypeOK
  <2>3. file' \in Seq(Requests \cup {Hole})
    <3> DEFINE n == IF Len(file) > done[r] + 1 THEN Len(file) ELSE done[r] + 1
    <3>1. n \in Nat /\ done[r] + 1 \in Nat
      <4> HIDE <1>2 DEF WriteBlock, PicodInv, At
      <4> QED  BY <2>2
    <3> HIDE DEF n
    <3>2. [i \in 1..n |-> IF i = done[r] + 1 THEN r ELSE IF i <= Len(file) THEN file[i] ELSE Hole]
            \in Seq(Requests \cup {Hole})
      BY <2>2, <3>1, FilledSeq
    <3> QED  BY <3>2, Zenon DEF Written, n
  <2>4. /\ pd'[r] = IF done[r] + 1 = Blocks[call[r]] THEN "answered" ELSE "write"
        /\ reply'[r] \in {reply[r], "stored", "error"}
        /\ reply'[r] = "stored" /\ reply[r] # "stored" => done[r] + 1 = Blocks[call[r]]
    BY DEF Goto, Answer, PicodTypeOK
  <2>5. \A q \in Requests \ {r} : pd'[q] = pd[q] /\ reply'[q] = reply[q] /\ done'[q] = done[q]
    BY DEF Goto, Answer, PicodTypeOK
  <2>6. done'[r] = done[r] + 1 /\ reply[r] = "none"
    BY DEF PicodTypeOK, CommandInv
  <2>7. PicodTypeOK'
    <3>1. pd' \in [Requests -> {"idle", "answered", "lost"} \cup Busy]
      <4>1. \A s \in {"answered", "write"} : [pd EXCEPT ![r] = s] \in [Requests -> {"idle", "answered", "lost"} \cup Busy]
        BY DEF PicodTypeOK, Busy
      <4> QED  BY <4>1, Zenon DEF Goto, Answer
    <3>2. reply' \in [Requests -> {"none", "error", "own", "failed", "timeout", "stored", "sent"}]
      BY Zenon DEF Goto, Answer, PicodTypeOK
    <3>3. done' \in [Requests -> Nat]
      BY <2>2 DEF PicodTypeOK
    <3> QED  BY <2>3, <3>1, <3>2, <3>3, SMTT(30) DEF PicodTypeOK, commandVars
  <2>8. opener \notin crossed => r = opener /\ file' = Prefix(opener, done'[opener])
    <3> SUFFICES ASSUME opener \notin crossed PROVE r = opener /\ file' = Prefix(r, done[r] + 1)
      BY <2>6, Zenon
    <3>1. r = opener /\ file = Prefix(r, done[r])
      BY <2>2, Zenon DEF UploadInv
    <3>2. Len(file) = done[r]
      BY <3>1, <2>2, PrefixLen, Zenon
    <3> QED  BY <3>1, <3>2, <2>2 DEF Prefix, Written
  <2>9. UploadInv'
    <3>1. UNCHANGED <<opener, crossed, call>> /\ pd[r] = "write" /\ UploadInv
      BY Zenon
    <3>2. opener \in Requests /\ done \in [Requests -> Nat] /\ Blocks \in [Uploads -> Nat]
      BY <2>2 DEF PicodTypeOK
    <3>3. done[r] + 1 <= Blocks[call[r]]
      <4> HIDE <1>2 DEF WriteBlock, PicodInv, At
      <4> QED  BY <2>2
    <3> HIDE <1>2 DEF WriteBlock, PicodInv, At
    <3>4. ASSUME NEW q \in Requests
          PROVE  /\ pd'[q] = "idle" => call[q] = "none"
                 /\ pd'[q] \in {"open", "write"} => call[q] \in Uploads
                 /\ pd'[q] \in {"idle", "open"} => done'[q] = 0
                 /\ pd'[q] = "write" => done'[q] < Blocks[call[q]]
                 /\ pd'[q] = "write" /\ opener \notin crossed => q = opener
                 /\ reply'[q] = "stored" => call[q] \in Uploads /\ done'[q] = Blocks[call[q]]
      <4>1. CASE q = r
        BY <4>1, <2>2, <2>4, <2>6, <2>8, <3>3
      <4>2. CASE q # r
        BY <4>2, <2>5, <3>1, Zenon DEF UploadInv
      <4> QED  BY <4>1, <4>2, Zenon
    <3>5. /\ call[opener] \in Uploads
          /\ pd'[opener] \in {"write", "answered", "lost"}
          /\ done'[opener] <= Blocks[call[opener]]
      <4>1. CASE opener = r
        BY <4>1, <2>2, <2>4, <2>6, <3>3, Zenon
      <4>2. CASE opener # r
        BY <4>2, <2>2, <2>5, <3>1, <3>2, Zenon DEF UploadInv
      <4> QED  BY <4>1, <4>2, Zenon
    <3>6. opener \notin crossed => file' = Prefix(opener, done[opener])'
      BY <2>8, <3>1, Zenon DEF Prefix
    <3> QED  BY <2>2, <2>3, <3>1, <3>4, <3>5, <3>6, Zenon DEF UploadInv
  <2>10. DownloadInv'
    <3>1. ASSUME NEW q \in Requests, pd[q] = "read", q \notin crossed
          PROVE  FALSE
      <4>1. opener \notin crossed /\ done[opener] = Blocks[call[opener]]
        BY <3>1, Zenon DEF DownloadInv
      <4>2. r = opener
        BY <4>1, <2>8, Zenon
      <4> QED  BY <4>1, <4>2, <2>2, Zenon
    <3> QED  BY <3>1, <2>4, <2>5, <2>2, ZenonT(20) DEF DownloadInv
  <2>11. DownloadWhole'
    BY <2>4, <2>5, <2>6, ZenonT(20) DEF DownloadWhole, Whole
  <2> QED  BY <2>1, <2>7, <2>9, <2>10, <2>11, Zenon
<1> QED  BY <1>1, <1>2, Zenon DEF WriteBlock

(***************************************************************************)
(* Finding the file for a download keeps PicodInv.                         *)
(***************************************************************************)
LEMMA DownloadStep ==
    ASSUME PicodInv, NEW r \in Requests, DownloadFile(r)
    PROVE  PicodInv'
<1> USE PicodAssumption DEF PicodInv, At
<1>1. CASE Answer(r, "error") /\ UNCHANGED <<size, crossed>>
  BY <1>1, ErrorStep DEF DownloadFile, fileVars
<1>2. CASE /\ file # NoFile
           /\ size' = [size EXCEPT ![r] = Len(file)]
           /\ crossed' = IF Torn THEN crossed \cup {r} ELSE crossed
           /\ Goto(r, "read")
  <2> USE <1>2 DEF DownloadFile
  <2>1. CommandInv' /\ ExitCodeTold' /\ CommandOver'
    BY CommandsUntouched
  <2>2. opener # Nobody /\ opener \in Requests /\ file \in Seq(Requests \cup {Hole}) /\ Len(file) \in Nat
    BY DEF UploadInv, PicodTypeOK
  <2> USE DEF Goto
  <2>3. PicodTypeOK'
    BY <2>2, Zenon DEF PicodTypeOK, Busy, Commands, commandVars
  <2>4. crossed' \in {crossed, crossed \cup {r}} /\ pd[opener] # "find" /\ opener # r
    BY <2>2, Zenon DEF UploadInv
  <2>5. UploadInv'
    BY <2>2, <2>4, ZenonT(40) DEF UploadInv, PicodTypeOK, Prefix
  <2>6. r \notin crossed' =>
          /\ opener \notin crossed
          /\ done[opener] = Blocks[call[opener]]
          /\ size'[r] = Blocks[call[opener]]
    <3> SUFFICES ASSUME r \notin crossed' PROVE /\ opener \notin crossed
                                               /\ done[opener] = Blocks[call[opener]]
                                               /\ size'[r] = Blocks[call[opener]]
      BY Zenon
    <3>1. ~Torn
      OBVIOUS
    <3>2. opener \notin crossed /\ ~(done[opener] < Blocks[call[opener]])
      BY <3>1, <2>2 DEF Torn
    <3>3. done[opener] \in Nat /\ call[opener] \in Uploads /\ Blocks[call[opener]] \in Nat
      BY <2>2 DEF PicodTypeOK, UploadInv
    <3>4. file = Prefix(opener, done[opener])
      BY <3>2, <2>2, Zenon DEF UploadInv
    <3>5. Len(file) = done[opener]
      BY <3>3, <3>4 DEF Prefix
    <3>6. done[opener] <= Blocks[call[opener]]
      BY <2>2, Zenon DEF UploadInv
    <3> QED  BY <3>2, <3>3, <3>5, <3>6, SMTT(30) DEF PicodTypeOK
  <2>7. DownloadInv'
    <3>0. got[r] = <<>>
      BY Zenon DEF DownloadInv
    <3>1. got[r] = <<>> /\ Len(got[r]) = 0 /\ <<>> = Prefix(opener, 0)
      <4>1. \A f : f = <<>> => Len(f) = 0
        OBVIOUS
      <4>2. <<>> = Prefix(opener, 0)
        BY ONLY DEF Prefix
      <4> QED  BY ONLY <3>0, <4>1, <4>2
    <3>2. size'[r] \in Nat
      BY <2>2 DEF PicodTypeOK
    <3>3. \A q \in Requests : q # r => pd'[q] = pd[q] /\ size'[q] = size[q]
      BY DEF PicodTypeOK
    <3>4. pd'[r] = "read"
      BY DEF PicodTypeOK
    <3>5. opener \notin crossed => opener \notin crossed'
      BY <2>4
    <3> QED  BY <2>2, <2>4, <2>6, <3>1, <3>2, <3>3, <3>4, <3>5 DEF DownloadInv, Prefix
  <2>8. DownloadWhole'
    BY <2>4, ZenonT(40) DEF DownloadWhole, Whole
  <2> QED  BY <2>1, <2>3, <2>5, <2>7, <2>8
<1> QED  BY <1>1, <1>2, ZenonT(20) DEF DownloadFile

(***************************************************************************)
(* A sequence of one value stays one when the value is appended.           *)
(***************************************************************************)
LEMMA AppendSame ==
    ASSUME NEW S, NEW s \in Seq(S), NEW x \in S, \A i \in 1..Len(s) : s[i] = x
    PROVE  Append(s, x) = [i \in 1..(Len(s) + 1) |-> x]
<1> DEFINE t == Append(s, x)
           n == Len(s) + 1
<1>1. t \in Seq(S) /\ Len(t) = n /\ n \in Nat
  OBVIOUS
<1>2. \A i \in 1..n : t[i] = x
  OBVIOUS
<1> HIDE DEF t, n
<1>3. t = [i \in 1..n |-> t[i]]
  BY <1>1
<1> QED  BY <1>2, <1>3 DEF t, n

(***************************************************************************)
(* Copying to the caller keeps PicodInv.                                   *)
(***************************************************************************)
LEMMA ReadStep ==
    ASSUME PicodInv, NEW r \in Requests, ReadBlock(r)
    PROVE  PicodInv'
<1> USE PicodAssumption DEF PicodInv, At
<1>1. CASE Answer(r, "error") /\ UNCHANGED got
  BY <1>1, ErrorStep, Zenon DEF ReadBlock, fileVars
<1>a. /\ opener # Nobody /\ opener \in Requests /\ call[opener] \in Uploads
      /\ file \in Seq(Requests \cup {Hole}) /\ Len(file) \in Nat
      /\ got[r] \in Seq(Requests \cup {Hole}) /\ Len(got[r]) \in Nat /\ size[r] \in Nat
      /\ Blocks[call[opener]] \in Nat
  BY SMTT(30) DEF ReadBlock, UploadInv, DownloadInv, PicodTypeOK
<1>2. CASE Answer(r, "sent") /\ UNCHANGED got
  <2> USE <1>2 DEF ReadBlock
  <2>1. CommandInv' /\ ExitCodeTold' /\ CommandOver'
    BY CommandsUntouched, Zenon
  <2>2. r \notin crossed => got[r] = Whole(opener)
    <3> SUFFICES ASSUME r \notin crossed PROVE got[r] = Prefix(opener, Blocks[call[opener]])
      BY Zenon DEF Whole, Prefix
    <3>1. /\ opener \notin crossed /\ size[r] = Blocks[call[opener]]
          /\ done[opener] = Blocks[call[opener]]
          /\ Len(got[r]) <= size[r] /\ got[r] = Prefix(opener, Len(got[r]))
      BY Zenon DEF DownloadInv
    <3>2. file = Prefix(opener, done[opener])
      BY <3>1, <1>a, Zenon DEF UploadInv
    <3>3. Len(file) = size[r]
      BY <3>1, <3>2, <1>a, PrefixLen, Zenon
    <3>4. Len(got[r]) = size[r]
      BY <3>1, <3>3, <1>a DEF Answer, Goto, PicodTypeOK
    <3> QED  BY <3>1, <3>4, ZenonT(20)
  <2> USE DEF Answer
  <2>3. PicodTypeOK'
    BY Zenon DEF PicodTypeOK, commandVars
  <2>4. UploadInv'
    BY ZenonT(40) DEF UploadInv, PicodTypeOK, Prefix
  <2>5. DownloadInv'
    BY DEF DownloadInv, PicodTypeOK, Prefix
  <2>6. DownloadWhole'
    BY <1>a, <2>2, ZenonT(20) DEF DownloadWhole, PicodTypeOK, Whole
  <2> QED  BY <2>1, <2>3, <2>4, <2>5, <2>6, Zenon
<1>3. CASE /\ Len(got[r]) < size[r] /\ Len(got[r]) < Len(file)
           /\ got' = [got EXCEPT ![r] = Append(@, file[Len(@) + 1])]
           /\ Goto(r, "read")
  <2> USE <1>3 DEF ReadBlock
  <2>1. CommandInv' /\ ExitCodeTold' /\ CommandOver'
    BY CommandsUntouched, Zenon
  <2>2. file[Len(got[r]) + 1] \in Requests \cup {Hole}
    BY <1>a
  <2> DEFINE b == file[Len(got[r]) + 1]
  <2>3. Append(got[r], b) \in Seq(Requests \cup {Hole}) /\ Len(Append(got[r], b)) = Len(got[r]) + 1
    BY <1>a, <2>2
  <2>4. got' = [got EXCEPT ![r] = Append(got[r], b)] /\ got'[r] = Append(got[r], b)
    BY DEF PicodTypeOK
  <2>b. b = file[Len(got[r]) + 1]
    BY Zenon
  <2> HIDE DEF b
  <2> USE DEF Goto
  <2>5. UNCHANGED <<pd, reply>>
    BY DEF PicodTypeOK
  <2>6. PicodTypeOK'
    <3>1. got' \in [Requests -> Seq(Requests \cup {Hole})]
      BY <2>3, <2>4, Zenon DEF PicodTypeOK
    <3> QED  BY <3>1, <2>5, ZenonT(30) DEF PicodTypeOK, commandVars
  <2>7. UploadInv'
    BY <2>5, ZenonT(20) DEF UploadInv, Prefix
  <2>8. r \notin crossed => got'[r] = Prefix(opener, Len(got'[r])) /\ Len(got'[r]) <= size[r]
    <3> SUFFICES ASSUME r \notin crossed
                 PROVE  Append(got[r], b) = Prefix(opener, Len(got[r]) + 1)
      <4>1. Len(got'[r]) = Len(got[r]) + 1 /\ Len(got[r]) + 1 <= size[r]
        BY <1>a, <2>3, <2>4
      <4> QED  BY <4>1, <2>4, Zenon
    <3>1. /\ opener \notin crossed /\ done[opener] = Blocks[call[opener]]
          /\ got[r] = Prefix(opener, Len(got[r]))
      BY Zenon DEF DownloadInv
    <3>2. file = Prefix(opener, done[opener])
      BY <3>1, <1>a, Zenon DEF UploadInv
    <3>3. Len(file) = done[opener]
      BY <3>1, <3>2, <1>a, PrefixLen, Zenon
    <3>4. b = opener
      BY <3>2, <3>3, <1>a, <2>b DEF Prefix
    <3>5. \A i \in 1..Len(got[r]) : got[r][i] = opener
      BY <3>1, Zenon DEF Prefix
    <3>6. Append(got[r], opener) = [i \in 1..(Len(got[r]) + 1) |-> opener]
      BY <3>5, <1>a, AppendSame
    <3> QED  BY <3>4, <3>6, ZenonT(20) DEF Prefix
  <2>9. DownloadInv'
    <3>1. \A q \in Requests : q # r => got'[q] = got[q]
      BY <2>4 DEF PicodTypeOK
    <3>2. pd[r] = "read"
      OBVIOUS
    <3>3. \A q \in Requests : q # r =>
            /\ pd[q] \in {"idle", "find"} => got'[q] = <<>>
            /\ pd[q] = "read" /\ q \notin crossed =>
                  Len(got'[q]) <= size[q] /\ got'[q] = Prefix(opener, Len(got'[q]))
      BY <3>1, Zenon DEF DownloadInv
    <3>4. ASSUME NEW q \in Requests, pd[q] = "read", q \notin crossed
          PROVE  /\ opener \notin crossed /\ done[opener] = Blocks[call[opener]]
                 /\ size[q] = Blocks[call[opener]]
                 /\ Len(got'[q]) <= size[q] /\ got'[q] = Prefix(opener, Len(got'[q]))
      BY <2>8, <3>3, <3>4, Zenon DEF DownloadInv
    <3>5. \A q \in Requests : pd[q] \in {"idle", "find"} => got'[q] = <<>>
      BY <3>2, <3>3, Zenon
    <3>6. UNCHANGED <<opener, crossed, done, call, size>>
      OBVIOUS
    <3> HIDE <1>3 DEF ReadBlock
    <3> QED  BY <1>a, <3>4, <3>5, <3>6, <2>5 DEF DownloadInv, Prefix
  <2>10. DownloadWhole'
    <3>1. reply[r] = "none"
      BY Zenon DEF CommandInv, PicodTypeOK
    <3>2. \A q \in Requests : q # r => got'[q] = got[q]
      BY <2>4 DEF PicodTypeOK
    <3>3. UNCHANGED <<crossed, call>>
      BY Zenon
    <3> HIDE <1>3 DEF ReadBlock
    <3> QED  BY <3>1, <3>2, <3>3, <2>5, SMTT(30) DEF DownloadWhole, Whole
  <2> QED  BY <2>1, <2>6, <2>7, <2>9, <2>10
<1> QED  BY <1>1, <1>2, <1>3, ZenonT(20) DEF ReadBlock

(***************************************************************************)
(* The end of the process keeps PicodInv.                                  *)
(***************************************************************************)
LEMMA ExitsStep ==
    ASSUME PicodInv, PicodExits
    PROVE  PicodInv'
<1> USE PicodAssumption DEF PicodInv, PicodExits, fileVars, commandVars
<1>1. \A r \in Requests : pd'[r] = IF pd[r] \in Busy THEN "lost" ELSE pd[r]
  OBVIOUS
<1>2. PicodTypeOK'
  BY Zenon DEF PicodTypeOK
<1> USE DEF Busy, Commands
<1>3. CommandInv' /\ ExitCodeTold' /\ CommandOver'
  BY <1>1, Zenon DEF CommandInv, ExitCodeTold, CommandOver
<1>4. UploadInv'
  BY <1>1, SMTT(30) DEF UploadInv, PicodTypeOK, Prefix
<1>5. DownloadInv'
  BY <1>1, ZenonT(20) DEF DownloadInv, Prefix
<1>6. DownloadWhole'
  BY Zenon DEF DownloadWhole, Whole
<1> QED  BY <1>2, <1>3, <1>4, <1>5, <1>6

(***************************************************************************)
(* Every step of PicoD keeps PicodInv, and so do steps that leave it.      *)
(***************************************************************************)
LEMMA PicodStep == PicodInv /\ PicodNext => PicodInv'
BY CommandStep, OpenStep, WriteStep, DownloadStep, ReadStep, ExitsStep
   DEF PicodNext, PicodHandler, HandleMultipartUpload, HandleJSONBase64Upload

\* The steps of the router that leave PicoD alone.
LEMMA PicodStutter ==
    ASSUME PicodInv, UNCHANGED picodVars
    PROVE  PicodInv'
<1> USE DEF PicodInv, picodVars, commandVars, fileVars
<1>1. PicodTypeOK'
  BY DEF PicodTypeOK
<1>2. CommandInv' /\ ExitCodeTold' /\ CommandOver'
  BY Zenon DEF CommandInv, ExitCodeTold, CommandOver
<1>3. UploadInv'
  BY ZenonT(30) DEF UploadInv, Prefix
<1>4. DownloadInv'
  BY ZenonT(30) DEF DownloadInv, Prefix
<1>5. DownloadWhole'
  BY Zenon DEF DownloadWhole, Whole
<1> QED  BY <1>1, <1>2, <1>3, <1>4, <1>5

(***************************************************************************)
(* An upload that has met no other leaves its whole content.               *)
(***************************************************************************)
LEMMA PicodSafe == PicodInv => UploadKept
BY Zenon DEF PicodInv, UploadKept, UploadInv, PicodTypeOK, Prefix, Whole

-----------------------------------------------------------------------------
IInv == TypeOK /\ PicodInv /\ SlotsHeld

(***************************************************************************)
(* The initial state satisfies the inductive invariant.                    *)
(***************************************************************************)
LEMMA InitIInv == Init => IInv
<1> SUFFICES ASSUME Init PROVE IInv
  OBVIOUS
<1>1. PicodInv
  BY PicodInitInv DEF Init
<1>2. TypeOK
  BY <1>1, ZenonT(20) DEF Init, TypeOK, PicodInv, Active
<1>3. InFlight = {}
  BY DEF Init, InFlight, Active
<1>4. SlotsHeld
  BY <1>3, FS_EmptySet, RouterAssumption DEF Init, SlotsHeld, Limit
<1> QED  BY <1>1, <1>2, <1>4 DEF IInv

(***************************************************************************)
(* Steps of main and of Start leave the requests alone.                    *)
(***************************************************************************)
LEMMA ProcessIInv == IInv /\ (Signal \/ ProcessStep) => IInv'
<1> SUFFICES ASSUME IInv, Signal \/ ProcessStep PROVE IInv'
  OBVIOUS
<1> USE DEF IInv
<1>1. UNCHANGED requestVars
  BY DEF Signal, ProcessStep, ListenAndServe, ServeReturns, ShutdownBegins, ShutdownReturns,
         CloseSessionManager, MainSelects, MainExits
<1>2. UNCHANGED <<slots, req>> /\ UNCHANGED picodVars
  BY <1>1 DEF requestVars
<1>3. PicodInv'
  BY <1>2, PicodStutter
<1>4. TypeOK'
  <2> USE <1>2, <1>3 DEF TypeOK, PicodInv
  <2>1. CASE Signal \/ MainSelects \/ MainExits
    BY <2>1, ZenonT(20) DEF Signal, MainSelects, MainExits, Active
  <2>2. CASE ListenAndServe \/ ServeReturns
    BY <2>2, Zenon DEF ListenAndServe, ServeReturns, Active
  <2>3. CASE ShutdownBegins \/ ShutdownReturns \/ CloseSessionManager
    BY <2>3, ZenonT(20) DEF ShutdownBegins, ShutdownReturns, CloseSessionManager, Active
  <2> QED  BY <2>1, <2>2, <2>3, Zenon DEF ProcessStep
<1>5. InFlight' = InFlight
  BY <1>2 DEF InFlight
<1>6. SlotsHeld'
  BY <1>2, <1>5 DEF SlotsHeld, Limit
<1> QED  BY <1>3, <1>4, <1>6

(***************************************************************************)
(* An invocation that moves on without leaving, or that gives its slot     *)
(* back, keeps the count.                                                  *)
(***************************************************************************)
LEMMA RequestIInv ==
    ASSUME IInv, PicodInv', NEW r \in Requests, UNCHANGED process, req[r] \in Active,
           \/ (\E s \in Active : req' = [req EXCEPT ![r] = s]) /\ UNCHANGED slots
           \/ Release(r)
    PROVE  IInv'
<1> USE DEF IInv, process
<1>1. IsFiniteSet(InFlight) /\ r \in InFlight /\ Cardinality(InFlight) \in Nat
  BY PicodAssumption, FS_Subset, FS_CardinalityType DEF InFlight
<1>2. Limit \in Nat
  BY RouterAssumption DEF Limit
<1>4. CASE (\E s \in Active : req' = [req EXCEPT ![r] = s]) /\ UNCHANGED slots
  <2>1. TypeOK'
    BY <1>4 DEF TypeOK, PicodInv
  <2>2. InFlight' = InFlight
    BY <1>4 DEF TypeOK, InFlight
  <2>3. SlotsHeld'
    BY <1>4, <2>2 DEF SlotsHeld, Limit
  <2> QED  BY <2>1, <2>3
<1>5. CASE Release(r)
  <2>1. InFlight' = InFlight \ {r}
    BY <1>5 DEF TypeOK, InFlight, Release, Active
  <2>2. Cardinality(InFlight') = Cardinality(InFlight) - 1
    BY <1>1, <2>1, FS_RemoveElement, Zenon
  <2>3. IsFiniteSet(InFlight')
    BY <1>1, <2>1, FS_RemoveElement, Zenon
  <2>4. Cardinality(InFlight') \in Nat
    BY <2>3, FS_CardinalityType
  <2>5. SlotsHeld'
    BY <1>1, <1>2, <1>5, <2>2 DEF SlotsHeld, Limit, Release, TypeOK
  <2>6. TypeOK'
    BY <1>5, <2>4, <2>5 DEF TypeOK, PicodInv, SlotsHeld, Release
  <2> QED  BY <2>5, <2>6
<1> QED  BY <1>4, <1>5

(***************************************************************************)
(* The limiter lets an invocation in, or turns it away.                    *)
(***************************************************************************)
LEMMA AcceptIInv ==
    ASSUME IInv, NEW r \in Requests, Accept(r)
    PROVE  IInv'
<1> USE DEF IInv, process
<1>1. PicodInv'
  BY PicodStutter DEF Accept
<1>2. IsFiniteSet(InFlight) /\ r \notin InFlight /\ Cardinality(InFlight) \in Nat
  BY PicodAssumption, FS_Subset, FS_CardinalityType DEF InFlight, Accept, Active
<1>3. Limit \in Nat
  BY RouterAssumption DEF Limit
<1>5. CASE slots < Limit /\ slots' = slots + 1 /\ req' = [req EXCEPT ![r] = "lookup"]
  <2>1. InFlight' = InFlight \cup {r}
    BY <1>5 DEF TypeOK, InFlight, Active
  <2>2. Cardinality(InFlight') = Cardinality(InFlight) + 1
    BY <1>2, <2>1, FS_AddElement
  <2>3. SlotsHeld'
    BY <1>2, <1>3, <1>5, <2>2 DEF SlotsHeld, Limit
  <2>4. TypeOK'
    BY <1>1, <1>5 DEF TypeOK, PicodInv, Accept, Active
  <2> QED  BY <1>1, <2>3, <2>4
<1>6. CASE (\E s \in {"refused", "rejected"} : req' = [req EXCEPT ![r] = s]) /\ UNCHANGED slots
  <2>1. InFlight' = InFlight
    BY <1>2, <1>6 DEF TypeOK, InFlight, Active
  <2>2. SlotsHeld'
    BY <1>6, <2>1 DEF SlotsHeld, Limit
  <2>3. TypeOK'
    BY <1>1, <1>6 DEF TypeOK, PicodInv, Accept
  <2> QED  BY <1>1, <2>2, <2>3
<1> QED  BY <1>5, <1>6 DEF Accept

(***************************************************************************)
(* Every step keeps the inductive invariant.                               *)
(***************************************************************************)
LEMMA NextIInv == IInv /\ [Next]_vars => IInv'
<1> SUFFICES ASSUME IInv, [Next]_vars PROVE IInv'
  OBVIOUS
<1>1. CASE Signal \/ ProcessStep
  BY <1>1, ProcessIInv
<1>2. ASSUME NEW r \in Requests, Accept(r) PROVE IInv'
  BY <1>2, AcceptIInv
<1>3. ASSUME NEW r \in Requests, Handle(r) \/ AgentReturns(r) \/ CallerGone(r) PROVE IInv'
  <2>1. PicodInv'
    <3>1. CASE ForwardToSandbox(r)
      BY <3>1, PicodStutter, ReceiveStep DEF ForwardToSandbox, IInv
    <3>2. CASE UNCHANGED picodVars
      BY <3>2, PicodStutter DEF IInv
    <3> QED  BY <1>3, <3>1, <3>2, Zenon
             DEF Handle, GetSandbox, TouchBefore, ProxyReturns, TouchAfter, AgentReturns,
                 CallerGone
  <2> USE <1>3, <2>1, RequestIInv
  <2>2. CASE GetSandbox(r)
    BY <2>2 DEF GetSandbox, Active
  <2>3. CASE TouchBefore(r)
    BY <2>3, ZenonT(20) DEF TouchBefore, Active
  <2>4. CASE ForwardToSandbox(r)
    BY <2>4 DEF ForwardToSandbox, Active
  <2>5. CASE ProxyReturns(r)
    BY <2>5 DEF ProxyReturns, Active
  <2>6. CASE TouchAfter(r)
    BY <2>6 DEF TouchAfter, Active
  <2>7. CASE CallerGone(r)
    BY <2>7, ZenonT(20) DEF CallerGone, Active
  <2>8. CASE AgentReturns(r)
    BY <2>8, ZenonT(20) DEF AgentReturns, Active
  <2> QED  BY <2>2, <2>3, <2>4, <2>5, <2>6, <2>7, <2>8 DEF Handle
<1>4. ASSUME PicodInv', UNCHANGED <<process, slots, req>> PROVE IInv'
  <2> USE <1>4 DEF IInv
  <2>1. TypeOK'
    BY DEF TypeOK, PicodInv, process
  <2>2. InFlight' = InFlight
    BY DEF InFlight
  <2>3. SlotsHeld'
    BY <2>2 DEF SlotsHeld, Limit
  <2> QED  BY <2>1, <2>3
<1>5. CASE PicodNext /\ UNCHANGED <<process, slots, req>>
  BY <1>4, <1>5, PicodStep DEF IInv
<1>6. CASE UNCHANGED vars
  BY <1>4, <1>6, PicodStutter DEF IInv, vars, requestVars
<1>7. ASSUME NEW r \in Requests, Connect(r) PROVE IInv'
  <2> USE <1>7 DEF IInv, Connect, process
  <2>1. PicodInv'
    BY PicodStutter
  <2>2. TypeOK'
    BY <2>1 DEF TypeOK, PicodInv
  <2>3. InFlight' = InFlight
    BY DEF InFlight, Active, TypeOK
  <2>4. SlotsHeld'
    BY <2>3 DEF SlotsHeld, Limit
  <2> QED  BY <2>1, <2>2, <2>4
<1> QED  BY <1>1, <1>2, <1>3, <1>5, <1>6, <1>7 DEF Next

(***************************************************************************)
(* The inductive invariant holds in every state of the router and PicoD.   *)
(***************************************************************************)
THEOREM Invariance == Spec => []IInv
BY InitIInv, NextIInv, PTL DEF Spec

(***************************************************************************)
(* The type invariant; the counter of the limiter is never negative.       *)
(***************************************************************************)
THEOREM TypeCorrect == Spec => []TypeOK
BY Invariance, PTL DEF IInv

(***************************************************************************)
(* The limiter counts the invocations in flight exactly, and lets no more  *)
(* in than the limit, for any limit and any number of requests.            *)
(***************************************************************************)
THEOREM LimiterCounts == Spec => []SlotsHeld
BY Invariance, PTL DEF IInv

(***************************************************************************)
(* ExecuteHandler mistakes no command: it tells a code of the command's    *)
(* own only when this ended by itself, a kill always as a timeout, and a   *)
(* timeout only after it has passed; and the process is gone by then, with *)
(* its output read.                                                        *)
(***************************************************************************)
THEOREM CommandsTold == Spec => []CommandTold
BY Invariance, PTL DEF IInv, PicodInv, CommandTold

(***************************************************************************)
(* What was stored alone is in the file, whole.                            *)
(***************************************************************************)
THEOREM UploadsKept == Spec => []UploadKept
BY Invariance, PicodSafe, PTL DEF IInv

(***************************************************************************)
(* What was downloaded undisturbed is one upload, whole.                   *)
(***************************************************************************)
THEOREM DownloadsWhole == Spec => []DownloadWhole
BY Invariance, PTL DEF IInv, PicodInv
=============================================================================
