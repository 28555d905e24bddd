--------------------------- MODULE Session_proofs ---------------------------
(***************************************************************************)
(* Session for any number of activities, voices, downloads, files and      *)
(* directories: the voice handed over last is the one chosen last, its     *)
(* file stays, undisturbed downloads are given whole to the media store,   *)
(* and what is left on disk is a failure's.                                *)
(***************************************************************************)
EXTENDS Session, SequenceTheorems, TLAPS

-----------------------------------------------------------------------------
(* The main thread is inside a command; a finish was posted; a conversion  *)
(* of the current callback is there.                                       *)
Busy == main \in {"parse", "transcode", "finish", "cleanup"}
Awaiting == \E i \in DOMAIN looper : looper[i].kind = "finish"
Converted == \E f \in covertDir : f.click = callBack

(* The part of the types that concerns voices.                             *)
VoiceTypes ==
  /\ main \in {"loop", "parse", "transcode", "finish", "cleanup", "exited"}
  /\ looper \in Seq(Message)
  /\ voiceAutoCovert \in BOOLEAN
  /\ clicks \in Nat /\ callBack \in Nat /\ awaited \in Nat
  /\ covertDir \subseteq [click : Nat, whole : BOOLEAN]

(* A command or a posted finish belongs to the voice chosen last.          *)
VoiceInv ==
  /\ Busy \/ Awaiting => voiceAutoCovert
  /\ voiceAutoCovert => callBack = awaited
  /\ main = "cleanup" => Awaiting
  /\ LastChoiceIsSentLast

(* When the finish runs there is a file to hand over.                      *)
FileInv ==
  /\ main \in {"finish", "cleanup"} \/ (main = "loop" /\ Awaiting) => Converted
  /\ SentFileIsKept

(* The part of the types that concerns downloads.                          *)
DownloadTypes ==
  /\ looper \in Seq(Message)
  /\ task \in [Downloads -> Running \cup {"none", "done", "failed", "killed"}]
  /\ doomed \in [Downloads -> SUBSET Files]
  /\ disk \in [Files -> SUBSET Downloads]
  /\ whole \subseteq Downloads /\ disturbed \subseteq Downloads
  /\ DOMAIN inserted = Downloads

(* A message is about a download that waits for it, and about one only.    *)
PostedInv ==
  /\ \A i \in DOMAIN looper :
       looper[i].kind = "saved" => task[looper[i].of] = "posted"
  /\ \A i, j \in DOMAIN looper :
       /\ looper[i].kind = "saved" /\ looper[j].kind = "saved"
       /\ looper[i].of = looper[j].of
       => i = j

(* Who writes into a file has its name, and has not been deleted with it.  *)
WritersInv ==
  \A f \in Files : \A d \in disk[f] :
    /\ FileOf[d] = f
    /\ task[d] \in {"transfer", "copy", "posted", "failed", "killed"}

(* A download deletes files of its own directory only; one that is not     *)
(* disturbed is alone there, and alone with its file.                      *)
AloneAt(d) ==
  /\ task[d] = "delete" => \A f \in doomed[d] :
       \E e \in Downloads : FileOf[e] = f /\ DirOf[e] = DirOf[d]
  /\ d \in whole =>
       task[d] \notin {"none", "clean", "delete", "open", "create", "transfer"}
  /\ d \notin disturbed =>
       /\ task[d] \in Running => Beside(d) = {}
       /\ task[d] \in {"open", "create"} => disk[FileOf[d]] = {}
       /\ task[d] = "transfer" => disk[FileOf[d]] = {d}
       /\ task[d] \in {"copy", "posted"} /\ d \in whole =>
            disk[FileOf[d]] = {d}
       /\ task[d] = "done" /\ d \in whole => inserted[d] \in {"whole", "refused"}

AloneInv == \A d \in Downloads : AloneAt(d)

Voices == VoiceTypes /\ VoiceInv /\ FileInv
Disks  == DownloadTypes /\ PostedInv /\ WritersInv /\ AloneInv

-----------------------------------------------------------------------------
(* What Append and Tail do to the posted messages.                         *)
LEMMA Posting ==
  ASSUME looper \in Seq(Message), NEW m \in Message, looper' = Append(looper, m)
  PROVE  /\ looper' \in Seq(Message)
         /\ DOMAIN looper = 1 .. Len(looper) /\ Len(looper) \in Nat
         /\ DOMAIN looper' = 1 .. Len(looper) + 1
         /\ \A i \in 1 .. Len(looper) : looper'[i] = looper[i]
         /\ looper'[Len(looper) + 1] = m
<1>1. /\ looper' \in Seq(Message) /\ Len(looper') = Len(looper) + 1
      /\ \A i \in 1 .. Len(looper) : looper'[i] = looper[i]
      /\ looper'[Len(looper) + 1] = m
  BY AppendProperties
<1>2. DOMAIN looper = 1 .. Len(looper) /\ Len(looper) \in Nat
  BY LenProperties
<1>3. DOMAIN looper' = 1 .. Len(looper')
  BY <1>1, LenProperties
<1> QED BY <1>1, <1>2, <1>3

(* The message that is handled first is the one posted first.              *)
LEMMA Handling ==
  ASSUME looper \in Seq(Message), looper # <<>>, looper' = Tail(looper)
  PROVE  /\ looper' \in Seq(Message)
         /\ DOMAIN looper = 1 .. Len(looper) /\ Len(looper) \in Nat \ {0}
         /\ DOMAIN looper' = 1 .. Len(looper) - 1
         /\ \A i \in 1 .. Len(looper) - 1 : looper'[i] = looper[i + 1]
         /\ Head(looper) = looper[1] /\ looper[1] \in Message
<1>1. /\ looper' \in Seq(Message) /\ Len(looper') = Len(looper) - 1
      /\ \A i \in 1 .. Len(looper') : looper'[i] = looper[i + 1]
  BY HeadTailProperties
<1>2. /\ Len(looper) \in Nat \ {0} /\ Head(looper) = looper[1]
      /\ looper[1] \in Message
  BY EmptySeq, ElementOfSeq
<1>3. DOMAIN looper = 1 .. Len(looper) /\ DOMAIN looper' = 1 .. Len(looper')
  BY <1>1, LenProperties
<1> QED BY <1>1, <1>2, <1>3

-----------------------------------------------------------------------------
(* Init: nothing is chosen, posted or written.                             *)
LEMMA InitVoices == Init => Voices
<1> SUFFICES ASSUME Init PROVE Voices
  OBVIOUS
<1>1. looper = <<>> /\ DOMAIN looper = {} /\ looper \in Seq(Message)
  BY DEF Init
<1>2. VoiceTypes
  BY <1>1 DEF Init, VoiceTypes
<1>3. VoiceInv /\ FileInv
  BY <1>1 DEF Init, VoiceInv, FileInv, Busy, Awaiting, LastChoiceIsSentLast,
              SentFileIsKept, Nothing
<1> QED BY <1>2, <1>3 DEF Voices

(* Steps that leave the voices, the command and the messages alone.        *)
LEMMA StillVoices ==
  ASSUME Voices, UNCHANGED <<main, looper, voiceAutoCovert, voices>>
  PROVE  Voices'
BY DEF Voices, VoiceTypes, VoiceInv, FileInv, Busy, Awaiting, Converted,
       LastChoiceIsSentLast, SentFileIsKept, Idle, Nothing, voices

(* A choice starts a command, or is handed over at once.                   *)
LEMMA ScreenVoices ==
  ASSUME Voices, Screen PROVE Voices'
<1>1. CASE \E a \in Activities : CreateActivity(a) \/ PermissionResult(a)
                                  \/ DestroyActivity(a)
  BY <1>1, StillVoices DEF CreateActivity, PermissionResult, DestroyActivity
<1>2. CASE OpenDialog
  BY <1>2, StillVoices DEF OpenDialog
<1>3. CASE ChooseVoice
  <2> DEFINE c == clicks + 1
  <2>0. /\ main = "loop" /\ clicks' = c /\ awaited' = c
        /\ looper' = looper /\ voiceAutoCovert' = voiceAutoCovert
        /\ c \in Nat \ {0}
    BY <1>3 DEF ChooseVoice, Idle, screen, Voices, VoiceTypes
  <2>1. CASE voiceAutoCovert
    <3>1. /\ callBack' = c /\ main' = "parse"
          /\ covertDir' = covertDir /\ sent' = sent
      BY <1>3, <2>1 DEF ChooseVoice
    <3> QED
      BY <2>0, <2>1, <3>1
      DEF Voices, VoiceTypes, VoiceInv, FileInv, Busy, Awaiting, Converted,
          LastChoiceIsSentLast, SentFileIsKept, Idle, Nothing
  <2>2. CASE ~voiceAutoCovert
    <3>1. PICK copied \in {{c}, {}} : Finish(c, tempDir \cup copied, covertDir)
      BY <1>3, <2>2 DEF ChooseVoice
    <3>2. /\ callBack' = callBack /\ main' = "loop"
          /\ covertDir' \subseteq covertDir /\ sent'.click = c
      BY <1>3, <2>0, <2>2, <3>1 DEF ChooseVoice, Finish, Handed
    <3> QED
      BY <2>0, <2>2, <3>2
      DEF Voices, VoiceTypes, VoiceInv, FileInv, Busy, Awaiting, Converted,
          LastChoiceIsSentLast, SentFileIsKept, Idle, Nothing
  <2> QED BY <2>1, <2>2 DEF Voices, VoiceTypes
<1> QED BY <1>1, <1>2, <1>3 DEF Screen

(* The process dies: only its files count.                                 *)
LEMMA ExitVoices ==
  ASSUME Voices, Exits PROVE Voices'
BY DEF Exits, Voices, VoiceTypes, VoiceInv, FileInv, Busy, Awaiting, Converted,
       LastChoiceIsSentLast, SentFileIsKept, Idle, Nothing, voices, screen

(* A command posts its finish only after its conversion is there.          *)
LEMMA CommandVoices ==
  ASSUME Voices, Command PROVE Voices'
<1>1. CASE ParseOptions
  <2>1. /\ main = "parse" /\ main' = "transcode"
        /\ covertDir' = covertDir \cup {[click |-> callBack, whole |-> FALSE]}
        /\ UNCHANGED <<looper, voiceAutoCovert, clicks, callBack, sent, awaited>>
    BY <1>1 DEF ParseOptions, screen
  <2>2. VoiceTypes'
    <3>1. [click |-> callBack, whole |-> FALSE] \in [click : Nat, whole : BOOLEAN]
      BY DEF Voices, VoiceTypes
    <3> QED BY <2>1, <3>1 DEF Voices, VoiceTypes
  <2>3. VoiceInv'
    BY <2>1 DEF Voices, VoiceInv, Busy, Awaiting, LastChoiceIsSentLast, Idle
  <2>4. FileInv'
    <3>1. covertDir \subseteq covertDir'
      BY <2>1
    <3> QED
      BY <2>1, <3>1 DEF Voices, FileInv, SentFileIsKept, Nothing
  <2> QED BY <2>2, <2>3, <2>4 DEF Voices
<1>2. CASE ParseFails
  BY <1>2, ExitVoices DEF ParseFails
<1>3. CASE CrashOnWild
  BY <1>3, ExitVoices DEF CrashOnWild
<1>4. CASE Transcode
  <2>1. PICK done \in BOOLEAN :
          covertDir' = {f \in covertDir : f.click # callBack}
                         \cup {[click |-> callBack, whole |-> done]}
    BY <1>4 DEF Transcode
  <2>2. /\ main = "transcode" /\ main' = "finish"
        /\ UNCHANGED <<looper, voiceAutoCovert, clicks, callBack, sent, awaited>>
    BY <1>4 DEF Transcode, screen
  <2>3. VoiceTypes'
    BY <2>1, <2>2 DEF Voices, VoiceTypes
  <2>4. VoiceInv'
    BY <2>2 DEF Voices, VoiceInv, Busy, Awaiting, LastChoiceIsSentLast, Idle
  <2>5. Converted'
    <3> DEFINE f == [click |-> callBack, whole |-> done]
    <3>1. f \in covertDir' /\ f.click = callBack'
      BY <2>1, <2>2
    <3> QED BY <3>1 DEF Converted
  <2>6. SentFileIsKept'
    <3>1. \A f \in covertDir : f.click # callBack => f \in covertDir'
      BY <2>1
    <3> QED
      BY <2>2, <2>5, <3>1
      DEF Voices, FileInv, SentFileIsKept, Converted, Nothing
  <2> QED BY <2>3, <2>4, <2>5, <2>6 DEF Voices, FileInv
<1>5. CASE TranscodeFails
  BY <1>5, ExitVoices DEF TranscodeFails
<1>6. CASE finish_callback
  <2>1. /\ main = "finish" /\ main' = "cleanup"
        /\ looper' = Append(looper, [kind |-> "finish"])
        /\ UNCHANGED <<voiceAutoCovert, clicks, callBack, sent, awaited, covertDir>>
    BY <1>6 DEF finish_callback, screen, voices
  <2>2. /\ looper' \in Seq(Message) /\ Awaiting'
    <3>1. [kind |-> "finish"] \in Message
      BY DEF Message
    <3> QED
      BY <2>1, <3>1, Posting DEF Voices, VoiceTypes, Awaiting
  <2> QED
    BY <2>1, <2>2 DEF Voices, VoiceTypes, VoiceInv, FileInv, Busy, Converted,
                LastChoiceIsSentLast, SentFileIsKept, Idle, Nothing
<1>7. CASE ffmpeg_cleanup
  <2>1. /\ main = "cleanup" /\ main' = "loop"
        /\ UNCHANGED <<looper, voiceAutoCovert, clicks, callBack, sent, awaited,
                       covertDir>>
    BY <1>7 DEF ffmpeg_cleanup, screen, voices
  <2> QED
    BY <2>1 DEF Voices, VoiceTypes, VoiceInv, FileInv, Busy, Awaiting, Converted,
                LastChoiceIsSentLast, SentFileIsKept, Idle, Nothing
<1> QED
  BY <1>1, <1>2, <1>3, <1>4, <1>5, <1>6, <1>7 DEF Command

(* The posted finish hands over what the current callback is about.        *)
LEMMA HandleFinishVoices ==
  ASSUME Voices, HandleFinish PROVE Voices'
<1>1. /\ main = "loop" /\ main' = main /\ looper # <<>>
      /\ Head(looper).kind = "finish" /\ looper' = Tail(looper)
      /\ sent' = Handed(callBack, tempDir, covertDir)
      /\ covertDir' = {f \in covertDir : f.click = callBack}
      /\ UNCHANGED <<voiceAutoCovert, clicks, callBack, awaited>>
  BY DEF HandleFinish, Finish, Idle, screen
<1>2. /\ looper' \in Seq(Message)
      /\ Awaiting
  BY <1>1, Handling DEF Voices, VoiceTypes, Awaiting
<1>3. voiceAutoCovert /\ Converted /\ callBack = awaited
  BY <1>1, <1>2 DEF Voices, VoiceInv, FileInv
<1>4. sent'.click = callBack /\ sent'.state # "none"
  <2>1. PICK f \in covertDir : f.click = callBack
    BY <1>3 DEF Converted
  <2>2. \/ f = [click |-> callBack, whole |-> TRUE]
        \/ f = [click |-> callBack, whole |-> FALSE]
    BY <2>1 DEF Voices, VoiceTypes
  <2> QED BY <1>1, <1>3, <2>1, <2>2 DEF Handed
<1>5. Converted'
  BY <1>1, <1>3 DEF Converted
<1> QED
  BY <1>1, <1>2, <1>3, <1>4, <1>5
  DEF Voices, VoiceTypes, VoiceInv, FileInv, Busy, Converted,
      LastChoiceIsSentLast, SentFileIsKept, Idle

(* The other message, and the tasks that post it, are not about voices.    *)
LEMMA DownloadVoices ==
  ASSUME Voices, HandleSaved \/ \E d \in Downloads : Download(d)
  PROVE  Voices'
<1>0. ASSUME looper' \in Seq(Message), Awaiting' <=> Awaiting,
             UNCHANGED <<main, voiceAutoCovert, voices>>
      PROVE  Voices'
  BY <1>0 DEF Voices, VoiceTypes, VoiceInv, FileInv, Busy, Awaiting, Converted,
              LastChoiceIsSentLast, SentFileIsKept, Idle, Nothing, voices
<1>1. CASE HandleSaved
  <2>1. /\ looper # <<>> /\ looper' = Tail(looper)
        /\ Head(looper).kind = "saved"
        /\ UNCHANGED <<main, voiceAutoCovert, voices>>
    BY <1>1 DEF HandleSaved, screen
  <2>2. /\ looper' \in Seq(Message) /\ looper[1].kind = "saved"
        /\ DOMAIN looper = 1 .. Len(looper) /\ Len(looper) \in Nat \ {0}
        /\ DOMAIN looper' = 1 .. Len(looper) - 1
        /\ \A i \in 1 .. Len(looper) - 1 : looper'[i] = looper[i + 1]
    BY <2>1, Handling DEF Voices, VoiceTypes
  <2>3. Awaiting' => Awaiting
    BY <2>2 DEF Awaiting
  <2>4. Awaiting => Awaiting'
    <3> SUFFICES ASSUME NEW i \in DOMAIN looper, looper[i].kind = "finish"
                 PROVE  \E k \in DOMAIN looper' : looper'[k].kind = "finish"
      BY DEF Awaiting
    <3>1. i # 1
      BY <2>2
    <3>2. i - 1 \in DOMAIN looper' /\ looper'[i - 1] = looper[i]
      BY <2>2, <3>1
    <3> QED BY <3>2
  <2> QED BY <1>0, <2>1, <2>2, <2>3, <2>4
<1>2. ASSUME NEW d \in Downloads, CopyAndPost(d) PROVE Voices'
  <2>1. /\ looper' = Append(looper, [kind |-> "saved", of |-> d])
        /\ UNCHANGED <<main, voiceAutoCovert, voices>>
        /\ [kind |-> "saved", of |-> d] \in Message
    BY <1>2 DEF CopyAndPost, screen, Message
  <2>2. /\ looper' \in Seq(Message)
        /\ DOMAIN looper = 1 .. Len(looper) /\ Len(looper) \in Nat
        /\ DOMAIN looper' = 1 .. Len(looper) + 1
        /\ \A i \in 1 .. Len(looper) : looper'[i] = looper[i]
        /\ looper'[Len(looper) + 1].kind = "saved"
    BY <2>1, Posting DEF Voices, VoiceTypes
  <2>3. Awaiting' <=> Awaiting
    BY <2>2 DEF Awaiting
  <2> QED BY <1>0, <2>1, <2>2, <2>3
<1>3. ASSUME NEW d \in Downloads,
             \/ StartDownload(d) \/ ListCache(d) \/ DeleteCached(d)
             \/ DeleteOld(d) \/ OpenFile(d) \/ ConnectFails(d)
             \/ Transfer(d) \/ CopyFails(d)
      PROVE  Voices'
  BY <1>3, StillVoices
  DEF StartDownload, ListCache, DeleteCached, DeleteOld, OpenFile, ConnectFails,
      Transfer, CopyFails, screen
<1> QED BY <1>1, <1>2, <1>3 DEF Download

(* A new process: no callback, no message, the files of the old one.       *)
LEMMA RestartVoices ==
  ASSUME Voices, RestartApp PROVE Voices'
<1>1. /\ main' = "loop" /\ looper' = <<>> /\ callBack' = 0 /\ awaited' = 0
      /\ UNCHANGED <<voiceAutoCovert, clicks, covertDir, sent>>
  BY DEF RestartApp
<1>2. looper' \in Seq(Message) /\ DOMAIN looper' = {}
  BY <1>1
<1> QED
  BY <1>1, <1>2 DEF Voices, VoiceTypes, VoiceInv, FileInv, Busy, Awaiting,
     Converted, LastChoiceIsSentLast, SentFileIsKept, Idle, Nothing

(* Every step.                                                             *)
LEMMA NextVoices ==
  ASSUME Voices, [Next]_vars PROVE Voices'
<1>1. CASE UNCHANGED vars
  BY <1>1, StillVoices DEF vars, screen
<1>2. CASE Killed
  BY <1>2, ExitVoices DEF Killed
<1> QED
  BY <1>1, <1>2, ScreenVoices, CommandVoices, HandleFinishVoices,
     DownloadVoices, RestartVoices DEF Next

-----------------------------------------------------------------------------
(* Init: no download was started.                                          *)
LEMMA InitDisks == Init => Disks
<1> SUFFICES ASSUME Init PROVE Disks
  OBVIOUS
<1>1. looper = <<>> /\ DOMAIN looper = {} /\ looper \in Seq(Message)
  BY DEF Init
<1>2. /\ \A d \in Downloads : /\ task[d] = "none" /\ doomed[d] = {}
                              /\ FileOf[d] \in Files
      /\ \A f \in Files : disk[f] = {}
      /\ whole = {}
  BY DEF Init, Files
<1>3. DownloadTypes
  BY <1>1 DEF Init, DownloadTypes, Running
<1>4. PostedInv /\ WritersInv /\ AloneInv
  BY <1>1, <1>2 DEF PostedInv, WritersInv, AloneInv, AloneAt, Running
<1> QED BY <1>3, <1>4 DEF Disks

(* Steps that leave the messages and the downloads alone.                  *)
LEMMA StillDisks ==
  ASSUME Disks, UNCHANGED <<looper, downloads>>
  PROVE  Disks'
BY DEF Disks, DownloadTypes, PostedInv, WritersInv, AloneInv, AloneAt, Beside,
       downloads

(* A step of a download moves it and no other.                             *)
LEMMA Moving ==
  ASSUME DownloadTypes, NEW d \in Downloads, NEW there,
         there \in Running \cup {"none", "done", "failed", "killed"},
         Moves(d, there)
  PROVE  /\ task' \in [Downloads -> Running \cup {"none", "done", "failed", "killed"}]
         /\ task'[d] = there
         /\ \A e \in Downloads \ {d} : task'[e] = task[e]
BY DEF DownloadTypes, Moves

(* A step of a running download that changes the files of its own          *)
(* directory only leaves the others what they have.                        *)
LEMMA OthersAlone ==
  ASSUME Disks, NEW d \in Downloads, NEW there,
         there \in Running \cup {"done", "failed"},
         task[d] \in Running, Moves(d, there),
         disturbed' = disturbed, whole' \in {whole, whole \cup {d}},
         \A e \in Downloads \ {d} :
           /\ inserted'[e] = inserted[e] /\ doomed'[e] = doomed[e]
           /\ DirOf[e] # DirOf[d] => disk'[FileOf[e]] = disk[FileOf[e]]
  PROVE  \A e \in Downloads \ {d} : AloneAt(e)'
<1> SUFFICES ASSUME NEW e \in Downloads \ {d} PROVE AloneAt(e)'
  OBVIOUS
<1>1. /\ task'[d] = there /\ \A x \in Downloads \ {d} : task'[x] = task[x]
      /\ e \in whole' <=> e \in whole
  BY Moving DEF Disks
<1>2. AloneAt(e)
  BY DEF Disks, AloneInv
<1>3. ASSUME e \notin disturbed, task[e] \in Running
      PROVE  Beside(e)' = {} /\ disk'[FileOf[e]] = disk[FileOf[e]]
  <2>1. Beside(e) = {}
    BY <1>2, <1>3 DEF AloneAt
  <2>2. DirOf[e] # DirOf[d]
    BY <2>1 DEF Beside
  <2>3. Beside(e)' \subseteq Beside(e)
    BY <1>1, <2>2 DEF Beside
  <2> QED BY <2>1, <2>2, <2>3
<1>4. {"open", "create", "transfer", "copy", "posted"} \subseteq Running
  BY DEF Running
<1> QED BY <1>1, <1>2, <1>3, <1>4 DEF AloneAt

(* No message is about a download that moves without posting one.          *)
LEMMA PostedStays ==
  ASSUME Disks, NEW d \in Downloads, NEW there,
         there \in Running \cup {"done", "failed"},
         task[d] # "posted", Moves(d, there), looper' = looper
  PROVE  PostedInv'
<1>1. /\ \A e \in Downloads \ {d} : task'[e] = task[e]
  BY Moving DEF Disks
<1>2. \A i \in DOMAIN looper : looper[i].kind = "saved" =>
        looper[i].of \in Downloads
  BY DEF Disks, DownloadTypes, Message
<1> QED BY <1>1, <1>2 DEF Disks, PostedInv

(* Who finds another one running in the directory disturbs it.            *)
LEMMA StartDisks ==
  ASSUME Disks, NEW d \in Downloads, StartDownload(d) PROVE Disks'
<1>1. /\ task[d] = "none" /\ Moves(d, "clean")
      /\ disturbed' = IF Beside(d) = {} THEN disturbed
                        ELSE disturbed \cup Beside(d) \cup {d}
      /\ UNCHANGED <<looper, doomed, disk, whole, inserted>>
  BY DEF StartDownload
<1>2. /\ task' \in [Downloads -> Running \cup {"none", "done", "failed", "killed"}]
      /\ task'[d] = "clean" /\ \A e \in Downloads \ {d} : task'[e] = task[e]
  BY <1>1, Moving DEF Disks, Running
<1>3. DownloadTypes'
  BY <1>1, <1>2 DEF Disks, DownloadTypes, Beside
<1>4. PostedInv'
  BY <1>1, PostedStays DEF Running
<1>5. WritersInv'
  BY <1>1, <1>2 DEF Disks, WritersInv, DownloadTypes
<1>6. ASSUME NEW e \in Downloads \ {d} PROVE AloneAt(e)'
  <2>1. AloneAt(e)
    BY DEF Disks, AloneInv
  <2>2. ASSUME e \notin disturbed', task[e] \in Running
        PROVE  Beside(e)' = {}
    <3>1. e \notin Beside(d) /\ e \notin disturbed
      BY <1>1, <2>2
    <3>2. DirOf[e] # DirOf[d] /\ Beside(e) = {}
      BY <2>1, <2>2, <3>1 DEF AloneAt, Beside
    <3> QED BY <1>2, <3>2 DEF Beside
  <2>3. e \notin disturbed' => e \notin disturbed
    BY <1>1
  <2> QED BY <1>1, <1>2, <2>1, <2>2, <2>3 DEF AloneAt
<1>7. AloneAt(d)'
  <2>1. d \notin disturbed' => Beside(d)' = {}
    <3>1. d \notin disturbed' => Beside(d) = {}
      BY <1>1
    <3>2. Beside(d)' = Beside(d)
      BY <1>2 DEF Beside
    <3> QED BY <3>1, <3>2
  <2>2. d \notin whole'
    BY <1>1 DEF Disks, AloneInv, AloneAt
  <2> QED BY <1>2, <2>1, <2>2 DEF AloneAt
<1> QED BY <1>3, <1>4, <1>5, <1>6, <1>7 DEF Disks, AloneInv

(* The listing finds files of the directory only.                          *)
LEMMA ListDisks ==
  ASSUME Disks, NEW d \in Downloads, ListCache(d) PROVE Disks'
<1>1. /\ task[d] = "clean" /\ Moves(d, "delete")
      /\ doomed' = [doomed EXCEPT ![d] =
                      {f \in Files : disk[f] # {}
                         /\ \E e \in Downloads :
                              FileOf[e] = f /\ DirOf[e] = DirOf[d]}]
      /\ UNCHANGED <<looper, disk, whole, inserted, disturbed>>
  BY DEF ListCache, At
<1>2. /\ task' \in [Downloads -> Running \cup {"none", "done", "failed", "killed"}]
      /\ task'[d] = "delete" /\ \A e \in Downloads \ {d} : task'[e] = task[e]
  BY <1>1, Moving DEF Disks, Running
<1>3. /\ doomed' \in [Downloads -> SUBSET Files]
      /\ \A e \in Downloads \ {d} : doomed'[e] = doomed[e]
      /\ \A f \in doomed'[d] :
           \E e \in Downloads : FileOf[e] = f /\ DirOf[e] = DirOf[d]
  BY <1>1 DEF Disks, DownloadTypes
<1>4. DownloadTypes'
  BY <1>1, <1>2, <1>3 DEF Disks, DownloadTypes
<1>5. PostedInv'
  BY <1>1, PostedStays DEF Running
<1>6. WritersInv'
  BY <1>1, <1>2 DEF Disks, WritersInv, DownloadTypes
<1>7. \A e \in Downloads \ {d} : AloneAt(e)'
  BY <1>1, <1>3, OthersAlone DEF Running
<1>8. AloneAt(d)'
  <2>1. AloneAt(d) /\ Beside(d)' = Beside(d)
    BY <1>2 DEF Disks, AloneInv, Beside
  <2> QED BY <1>1, <1>2, <1>3, <2>1 DEF AloneAt, Running
<1> QED BY <1>4, <1>5, <1>6, <1>7, <1>8 DEF Disks, AloneInv

(* A file of the directory is deleted, or the last one was and its own     *)
(* file is the next to be opened.                                          *)
LEMMA DeleteDisks ==
  ASSUME Disks, NEW d \in Downloads, DeleteCached(d) \/ DeleteOld(d)
  PROVE  Disks'
<1>0. /\ task[d] \in {"delete", "open"} /\ task \in [Downloads -> Running \cup {"none", "done", "failed", "killed"}]
      /\ AloneAt(d) /\ FileOf[d] \in Files
      /\ UNCHANGED <<looper, whole, inserted, disturbed>>
  BY DEF DeleteCached, DeleteOld, At, Disks, DownloadTypes, AloneInv, Files
<1>1. PICK f \in Files, there \in {"delete", "open", "create"} :
        /\ disk' = [disk EXCEPT ![f] = {}]
        /\ Moves(d, there)
        /\ IF there = "delete" THEN task[d] = "delete" ELSE f = FileOf[d]
        /\ \E x \in Downloads : FileOf[x] = f /\ DirOf[x] = DirOf[d]
        /\ doomed' \in [Downloads -> SUBSET Files]
        /\ \A e \in Downloads \ {d} : doomed'[e] = doomed[e]
        /\ doomed'[d] \subseteq doomed[d]
  <2>1. CASE DeleteCached(d) /\ doomed[d] = {}
    BY <1>0, <2>1 DEF DeleteCached, At, Disks, DownloadTypes
  <2>2. CASE DeleteOld(d)
    BY <1>0, <2>2 DEF DeleteOld, Disks, DownloadTypes
  <2>3. CASE DeleteCached(d) /\ doomed[d] # {}
    <3>1. PICK f \in doomed[d] :
            /\ disk' = [disk EXCEPT ![f] = {}]
            /\ doomed' = [doomed EXCEPT ![d] = @ \ {f}]
            /\ task' = task
      BY <2>3 DEF DeleteCached
    <3>0. task[d] = "delete"
      BY <2>3 DEF DeleteCached, At
    <3>2. f \in Files /\ \E x \in Downloads : FileOf[x] = f /\ DirOf[x] = DirOf[d]
      BY <1>0, <3>0 DEF Disks, DownloadTypes, AloneAt
    <3>3. Moves(d, "delete")
      BY <1>0, <3>0, <3>1 DEF Moves
    <3>4. /\ doomed' \in [Downloads -> SUBSET Files]
          /\ \A e \in Downloads \ {d} : doomed'[e] = doomed[e]
          /\ doomed'[d] \subseteq doomed[d]
      BY <3>1 DEF Disks, DownloadTypes
    <3> QED BY <3>0, <3>1, <3>2, <3>3, <3>4
  <2> QED BY <2>1, <2>2, <2>3
<1>2. /\ task' \in [Downloads -> Running \cup {"none", "done", "failed", "killed"}]
      /\ task'[d] = there /\ \A e \in Downloads \ {d} : task'[e] = task[e]
      /\ there \in Running
  BY <1>1, Moving DEF Disks, Running
<1>3. /\ disk' \in [Files -> SUBSET Downloads] /\ disk'[f] = {}
      /\ \A g \in Files \ {f} : disk'[g] = disk[g]
  BY <1>1 DEF Disks, DownloadTypes
<1>4. DownloadTypes'
  BY <1>0, <1>1, <1>2, <1>3 DEF Disks, DownloadTypes
<1>5. PostedInv'
  BY <1>0, <1>1, <1>2, PostedStays
<1>6. WritersInv'
  BY <1>0, <1>2, <1>3 DEF Disks, WritersInv, DownloadTypes
<1>7. \A e \in Downloads \ {d} : AloneAt(e)'
  <2>1. \A e \in Downloads : DirOf[e] # DirOf[d] => FileOf[e] # f
    BY <1>1, DownloadAssumption
  <2>2. \A e \in Downloads : FileOf[e] \in Files
    BY DEF Files
  <2> QED BY <1>0, <1>1, <1>2, <1>3, <2>1, <2>2, OthersAlone DEF Running
<1>8. AloneAt(d)'
  <2>1. Beside(d)' = Beside(d)
    BY <1>2 DEF Beside
  <2>2. there # "delete" => disk'[FileOf[d]] = {}
    BY <1>1, <1>3
  <2> QED BY <1>0, <1>1, <1>2, <2>1, <2>2 DEF AloneAt, Running
<1> QED BY <1>4, <1>5, <1>6, <1>7, <1>8 DEF Disks, AloneInv

(* The download writes into its file.                                      *)
LEMMA OpenDisks ==
  ASSUME Disks, NEW d \in Downloads, OpenFile(d) PROVE Disks'
<1>1. /\ task[d] = "create" /\ Moves(d, "transfer")
      /\ disk' = [disk EXCEPT ![FileOf[d]] = @ \cup {d}]
      /\ UNCHANGED <<looper, doomed, whole, inserted, disturbed>>
      /\ \A e \in Downloads : FileOf[e] \in Files
  BY DEF OpenFile, At, Files
<1>2. /\ task' \in [Downloads -> Running \cup {"none", "done", "failed", "killed"}]
      /\ task'[d] = "transfer" /\ \A e \in Downloads \ {d} : task'[e] = task[e]
  BY <1>1, Moving DEF Disks, Running
<1>3. /\ disk' \in [Files -> SUBSET Downloads]
      /\ disk'[FileOf[d]] = disk[FileOf[d]] \cup {d}
      /\ \A g \in Files \ {FileOf[d]} : disk'[g] = disk[g]
  BY <1>1 DEF Disks, DownloadTypes
<1>4. DownloadTypes'
  BY <1>1, <1>2, <1>3 DEF Disks, DownloadTypes
<1>5. PostedInv'
  BY <1>1, PostedStays DEF Running
<1>6. WritersInv'
  BY <1>1, <1>2, <1>3 DEF Disks, WritersInv, DownloadTypes
<1>7. \A e \in Downloads \ {d} : AloneAt(e)'
  <2>1. \A e \in Downloads : DirOf[e] # DirOf[d] => FileOf[e] # FileOf[d]
    BY DownloadAssumption
  <2> QED BY <1>1, <1>3, <2>1, OthersAlone DEF Running
<1>8. AloneAt(d)'
  <2>1. AloneAt(d) /\ Beside(d)' = Beside(d)
    BY <1>2 DEF Disks, AloneInv, Beside
  <2>2. d \notin disturbed => disk'[FileOf[d]] = {d}
    BY <1>1, <1>3, <2>1 DEF AloneAt
  <2> QED BY <1>1, <1>2, <2>1, <2>2 DEF AloneAt, Running
<1> QED BY <1>4, <1>5, <1>6, <1>7, <1>8 DEF Disks, AloneInv

(* The transfer ends, whole or not, or never starts, or its copy fails:    *)
(* no file is touched and nothing is posted.                               *)
LEMMA OwnDisks ==
  ASSUME Disks, NEW d \in Downloads,
         Transfer(d) \/ ConnectFails(d) \/ CopyFails(d)
  PROVE  Disks'
<1>1. PICK there \in {"copy", "failed"} :
        /\ Moves(d, there) /\ task[d] \in {"open", "create", "transfer", "copy"}
        /\ task[d] = "copy" <=> there = "failed"
        /\ whole' \in {whole, whole \cup {d}}
        /\ task[d] # "transfer" => whole' = whole
        /\ UNCHANGED <<looper, doomed, disk, inserted, disturbed>>
  <2>1. CASE Transfer(d)
    BY <2>1 DEF Transfer, At
  <2>2. CASE ConnectFails(d)
    BY <2>2 DEF ConnectFails, At
  <2>3. CASE CopyFails(d)
    BY <2>3 DEF CopyFails, At
  <2> QED BY <2>1, <2>2, <2>3
<1>2. /\ task' \in [Downloads -> Running \cup {"none", "done", "failed", "killed"}]
      /\ task'[d] = there /\ \A e \in Downloads \ {d} : task'[e] = task[e]
  BY <1>1, Moving DEF Disks, Running
<1>3. DownloadTypes'
  BY <1>1, <1>2 DEF Disks, DownloadTypes
<1>4. PostedInv'
  BY <1>1, PostedStays DEF Running
<1>5. WritersInv'
  BY <1>1, <1>2 DEF Disks, WritersInv, DownloadTypes
<1>6. \A e \in Downloads \ {d} : AloneAt(e)'
  BY <1>1, OthersAlone DEF Running
<1>7. AloneAt(d)'
  <2>1. AloneAt(d) /\ Beside(d)' = Beside(d)
    BY <1>2 DEF Disks, AloneInv, Beside
  <2> QED BY <1>1, <1>2, <2>1 DEF AloneAt, Running
<1> QED BY <1>3, <1>4, <1>5, <1>6, <1>7 DEF Disks, AloneInv

(* The message is posted behind those of other downloads.                  *)
LEMMA PostDisks ==
  ASSUME Disks, NEW d \in Downloads, CopyAndPost(d) PROVE Disks'
<1>1. /\ task[d] = "copy" /\ Moves(d, "posted")
      /\ looper' = Append(looper, [kind |-> "saved", of |-> d])
      /\ UNCHANGED <<doomed, disk, whole, inserted, disturbed>>
      /\ [kind |-> "saved", of |-> d] \in Message
  BY DEF CopyAndPost, At, Message
<1>2. /\ task' \in [Downloads -> Running \cup {"none", "done", "failed", "killed"}]
      /\ task'[d] = "posted" /\ \A e \in Downloads \ {d} : task'[e] = task[e]
  BY <1>1, Moving DEF Disks, Running
<1>3. /\ looper' \in Seq(Message)
      /\ DOMAIN looper = 1 .. Len(looper) /\ Len(looper) \in Nat
      /\ DOMAIN looper' = 1 .. Len(looper) + 1
      /\ \A i \in 1 .. Len(looper) : looper'[i] = looper[i]
      /\ looper'[Len(looper) + 1] = [kind |-> "saved", of |-> d]
  BY <1>1, Posting DEF Disks, DownloadTypes
<1>4. DownloadTypes'
  BY <1>1, <1>2, <1>3 DEF Disks, DownloadTypes
<1>5. PostedInv'
  <2>1. \A i \in 1 .. Len(looper) : looper[i].kind = "saved" =>
          looper[i].of \in Downloads /\ task[looper[i].of] = "posted"
    BY <1>3 DEF Disks, DownloadTypes, PostedInv, Message
  <2>2. \A i \in 1 .. Len(looper) : looper[i].kind = "saved" =>
          looper[i].of # d
    BY <1>1, <2>1
  <2>3. \A i \in DOMAIN looper' :
          looper'[i].kind = "saved" => task'[looper'[i].of] = "posted"
    BY <1>2, <1>3, <2>1, <2>2
  <2>4. ASSUME NEW i \in DOMAIN looper', NEW j \in DOMAIN looper',
               looper'[i].kind = "saved", looper'[j].kind = "saved",
               looper'[i].of = looper'[j].of
        PROVE  i = j
    <3>1. CASE i \in 1 .. Len(looper) /\ j \in 1 .. Len(looper)
      BY <1>3, <2>4, <3>1 DEF Disks, PostedInv
    <3>2. CASE i = Len(looper) + 1 \/ j = Len(looper) + 1
      BY <1>3, <2>2, <2>4, <3>2
    <3> QED BY <1>3, <3>1, <3>2
  <2> QED BY <2>3, <2>4 DEF PostedInv
<1>6. WritersInv'
  BY <1>1, <1>2 DEF Disks, WritersInv, DownloadTypes
<1>7. \A e \in Downloads \ {d} : AloneAt(e)'
  BY <1>1, OthersAlone DEF Running
<1>8. AloneAt(d)'
  <2>1. AloneAt(d) /\ Beside(d)' = Beside(d)
    BY <1>2 DEF Disks, AloneInv, Beside
  <2> QED BY <1>1, <1>2, <2>1 DEF AloneAt, Running
<1> QED BY <1>4, <1>5, <1>6, <1>7, <1>8 DEF Disks, AloneInv

(* What the first message leaves behind.                                   *)
LEMMA HandlingPosted ==
  ASSUME DownloadTypes, PostedInv, looper # <<>>, looper' = Tail(looper)
  PROVE  /\ looper' \in Seq(Message)
         /\ Head(looper).kind = "saved" =>
              Head(looper).of \in Downloads /\ task[Head(looper).of] = "posted"
         /\ \A i \in DOMAIN looper' : looper'[i].kind = "saved" =>
              /\ looper'[i].of \in Downloads /\ task[looper'[i].of] = "posted"
              /\ Head(looper).kind = "saved" => looper'[i].of # Head(looper).of
         /\ \A i, j \in DOMAIN looper' :
              /\ looper'[i].kind = "saved" /\ looper'[j].kind = "saved"
              /\ looper'[i].of = looper'[j].of
              => i = j
<1>1. /\ looper' \in Seq(Message)
      /\ DOMAIN looper = 1 .. Len(looper) /\ Len(looper) \in Nat \ {0}
      /\ DOMAIN looper' = 1 .. Len(looper) - 1
      /\ \A i \in 1 .. Len(looper) - 1 : looper'[i] = looper[i + 1]
      /\ Head(looper) = looper[1]
  BY Handling DEF DownloadTypes
<1>2. \A i \in DOMAIN looper : looper[i].kind = "saved" =>
        looper[i].of \in Downloads /\ task[looper[i].of] = "posted"
  BY DEF DownloadTypes, PostedInv, Message
<1>3. \A i \in DOMAIN looper' : i + 1 \in DOMAIN looper /\ i + 1 # 1
  BY <1>1
<1>4. 1 \in DOMAIN looper
  BY <1>1
<1>5. ASSUME NEW i \in DOMAIN looper', looper'[i].kind = "saved"
      PROVE  /\ looper'[i].of \in Downloads /\ task[looper'[i].of] = "posted"
             /\ Head(looper).kind = "saved" => looper'[i].of # Head(looper).of
  BY <1>1, <1>2, <1>3, <1>4, <1>5 DEF PostedInv
<1>6. ASSUME NEW i \in DOMAIN looper', NEW j \in DOMAIN looper',
             looper'[i].kind = "saved", looper'[j].kind = "saved",
             looper'[i].of = looper'[j].of
      PROVE  i = j
  <2>1. i + 1 = j + 1
    BY <1>1, <1>3, <1>6 DEF PostedInv
  <2> QED BY <1>1, <2>1
<1> QED BY <1>1, <1>2, <1>4, <1>5, <1>6

(* The finish message is not about downloads.                              *)
LEMMA FinishDisks ==
  ASSUME Disks, finish_callback \/ HandleFinish PROVE Disks'
<1>1. UNCHANGED downloads
  BY DEF finish_callback, HandleFinish
<1>0. ASSUME looper' \in Seq(Message), PostedInv' PROVE Disks'
  BY <1>0, <1>1
  DEF Disks, DownloadTypes, WritersInv, AloneInv, AloneAt, Beside, downloads
<1>2. CASE finish_callback
  <2>1. looper' = Append(looper, [kind |-> "finish"]) /\ [kind |-> "finish"] \in Message
    BY <1>2 DEF finish_callback, Message
  <2>2. /\ looper' \in Seq(Message)
        /\ DOMAIN looper = 1 .. Len(looper) /\ Len(looper) \in Nat
        /\ DOMAIN looper' = 1 .. Len(looper) + 1
        /\ \A i \in 1 .. Len(looper) : looper'[i] = looper[i]
        /\ looper'[Len(looper) + 1].kind = "finish"
    BY <2>1, Posting DEF Disks, DownloadTypes
  <2>3. \A i \in DOMAIN looper' : looper'[i].kind = "saved" =>
          i \in DOMAIN looper /\ looper'[i] = looper[i]
    BY <2>2
  <2>4. PostedInv'
    BY <1>1, <2>3 DEF Disks, PostedInv, downloads
  <2> QED BY <1>0, <2>2, <2>4
<1>3. CASE HandleFinish
  <2>1. looper # <<>> /\ looper' = Tail(looper)
    BY <1>3 DEF HandleFinish
  <2> QED BY <1>0, <1>1, <2>1, HandlingPosted DEF Disks, PostedInv, downloads
<1> QED BY <1>2, <1>3

(* What one download saved is read, and only its own file is deleted.      *)
LEMMA SavedDisks ==
  ASSUME Disks, HandleSaved PROVE Disks'
<1>0. PICK d : d = Head(looper).of
  OBVIOUS
<1>1. /\ looper # <<>> /\ looper' = Tail(looper) /\ Head(looper).kind = "saved"
      /\ \E got \in {Read(d), "refused"} :
           inserted' = [inserted EXCEPT ![d] = got]
      /\ disk' = [disk EXCEPT ![FileOf[d]] = {}]
      /\ Moves(d, "done")
      /\ UNCHANGED <<doomed, whole, disturbed>>
  BY <1>0 DEF HandleSaved, insertVideo
<1>2. /\ looper' \in Seq(Message)
      /\ d \in Downloads /\ task[d] = "posted"
      /\ \A i \in DOMAIN looper' : looper'[i].kind = "saved" =>
           /\ looper'[i].of \in Downloads /\ task[looper'[i].of] = "posted"
           /\ looper'[i].of # d
      /\ \A i, j \in DOMAIN looper' :
           /\ looper'[i].kind = "saved" /\ looper'[j].kind = "saved"
           /\ looper'[i].of = looper'[j].of
           => i = j
  BY <1>0, <1>1, HandlingPosted DEF Disks
<1>3. /\ task' \in [Downloads -> Running \cup {"none", "done", "failed", "killed"}]
      /\ task'[d] = "done" /\ \A e \in Downloads \ {d} : task'[e] = task[e]
  BY <1>1, <1>2, Moving DEF Disks, Running
<1>4. /\ disk' \in [Files -> SUBSET Downloads] /\ disk'[FileOf[d]] = {}
      /\ \A f \in Files \ {FileOf[d]} : disk'[f] = disk[f]
      /\ \A e \in Downloads : FileOf[e] \in Files
  BY <1>1, <1>2 DEF Disks, DownloadTypes, Files
<1>5. DOMAIN inserted' = Downloads /\ inserted'[d] \in {Read(d), "refused"}
      /\ \A e \in Downloads \ {d} : inserted'[e] = inserted[e]
  BY <1>1, <1>2 DEF Disks, DownloadTypes
<1>6. DownloadTypes'
  BY <1>1, <1>2, <1>3, <1>4, <1>5 DEF Disks, DownloadTypes
<1>7. PostedInv'
  BY <1>2, <1>3 DEF PostedInv
<1>8. WritersInv'
  <2>1. ASSUME NEW f \in Files, NEW e \in disk'[f]
        PROVE  /\ FileOf[e] = f
               /\ task'[e] \in {"transfer", "copy", "posted", "failed", "killed"}
    <3>1. f # FileOf[d] /\ e \in disk[f]
      BY <1>4, <2>1
    <3>2. FileOf[e] = f /\ e \in Downloads
      BY <3>1 DEF Disks, WritersInv, DownloadTypes
    <3> QED BY <1>3, <3>1, <3>2 DEF Disks, WritersInv
  <2> QED BY <2>1 DEF WritersInv
<1>9. \A e \in Downloads \ {d} : AloneAt(e)'
  <2>1. \A e \in Downloads : DirOf[e] # DirOf[d] => FileOf[e] # FileOf[d]
    BY <1>2, DownloadAssumption
  <2> QED BY <1>1, <1>2, <1>4, <1>5, <2>1, OthersAlone DEF Running
<1>10. AloneAt(d)'
  <2>1. AloneAt(d)
    BY <1>2 DEF Disks, AloneInv
  <2>2. d \notin disturbed /\ d \in whole => Read(d) = "whole"
    BY <1>2, <2>1 DEF AloneAt, Read
  <2> QED BY <1>1, <1>3, <1>5, <2>1, <2>2 DEF AloneAt, Running
<1> QED BY <1>6, <1>7, <1>8, <1>9, <1>10 DEF Disks, AloneInv

(* A new process: what ran is killed, and the files stay.                  *)
LEMMA RestartDisks ==
  ASSUME Disks, RestartApp PROVE Disks'
<1>1. /\ looper' = <<>> /\ looper' \in Seq(Message) /\ DOMAIN looper' = {}
      /\ task' = [d \in Downloads |->
                    IF task[d] \in Running THEN "killed" ELSE task[d]]
      /\ doomed' = [d \in Downloads |-> {}]
      /\ UNCHANGED <<disk, whole, inserted, disturbed>>
  BY DEF RestartApp
<1>2. DownloadTypes'
  BY <1>1 DEF Disks, DownloadTypes
<1>3. PostedInv'
  BY <1>1 DEF PostedInv
<1>4. WritersInv'
  BY <1>1 DEF Disks, WritersInv, DownloadTypes, Running
<1>5. AloneInv'
  <2> SUFFICES ASSUME NEW d \in Downloads PROVE AloneAt(d)'
    BY DEF AloneInv
  <2>1. /\ AloneAt(d) /\ task'[d] \notin Running
        /\ task'[d] \in {"none", "done"} => task'[d] = task[d]
    BY <1>1 DEF Disks, DownloadTypes, AloneInv, Running
  <2> QED BY <1>1, <2>1 DEF AloneAt, Running
<1> QED BY <1>2, <1>3, <1>4, <1>5 DEF Disks

(* Every step.                                                             *)
LEMMA NextDisks ==
  ASSUME Disks, [Next]_vars PROVE Disks'
<1>1. CASE UNCHANGED vars
  BY <1>1, StillDisks DEF vars
<1>2. CASE Killed
  BY <1>2, StillDisks DEF Killed, Exits
<1>3. CASE Screen
  BY <1>3, StillDisks
  DEF Screen, CreateActivity, PermissionResult, DestroyActivity, OpenDialog,
      ChooseVoice
<1>4. CASE Command
  BY <1>4, StillDisks, FinishDisks
  DEF Command, ParseOptions, ParseFails, CrashOnWild, Transcode, TranscodeFails,
      ffmpeg_cleanup, Exits
<1>5. ASSUME NEW d \in Downloads, Download(d) PROVE Disks'
  BY <1>5, StartDisks, ListDisks, DeleteDisks, OpenDisks, OwnDisks, PostDisks
  DEF Download
<1> QED
  BY <1>1, <1>2, <1>3, <1>4, <1>5, FinishDisks, SavedDisks, RestartDisks DEF Next

(* FFmpeg.callBack is one static, read by every posted finish: once none   *)
(* is pending, what was handed to the host last is the last choice.        *)
THEOREM LastChoiceWins == Spec => []LastChoiceIsSentLast
<1>1. Voices => LastChoiceIsSentLast
  BY DEF Voices, VoiceInv
<1> QED
  BY <1>1, InitVoices, NextVoices, PTL DEF Spec

(* The file handed to the host last was there when it was handed over, and *)
(* no callback, command or new process deletes it before the next one is.  *)
THEOREM HandedFileStays == Spec => []SentFileIsKept
<1>1. Voices => SentFileIsKept
  BY DEF Voices, FileInv
<1> QED
  BY <1>1, InitVoices, NextVoices, PTL DEF Spec

(* Every download empties the directory it shares; what one that had it    *)
(* for itself from its start to its message transferred whole reaches the  *)
(* media store, unless the store fails: nobody deletes or overwrites it.   *)
THEOREM UndisturbedIsWhole == Spec => []AloneIsWhole
<1>1. Disks => AloneIsWhole
  BY DEF Disks, AloneInv, AloneAt, AloneIsWhole
<1> QED
  BY <1>1, InitDisks, NextDisks, PTL DEF Spec

(* A temporary file that no running download is about is one of a download *)
(* that could not copy it or was killed.                                   *)
THEOREM OnlyFailuresStay == Spec => []LeftOversAreFailures
<1>1. Disks => LeftOversAreFailures
  <2> SUFFICES ASSUME Disks, NEW f \in Files, disk[f] # {},
                      \A d \in Downloads : FileOf[d] = f => task[d] \notin Running
               PROVE  \E d \in disk[f] : task[d] \in {"failed", "killed"}
    BY DEF LeftOversAreFailures
  <2>1. PICK d : d \in disk[f]
    OBVIOUS
  <2>2. d \in Downloads
    BY <2>1 DEF Disks, DownloadTypes
  <2>3. /\ FileOf[d] = f
        /\ task[d] \in {"transfer", "copy", "posted", "failed", "killed"}
    BY <2>1 DEF Disks, WritersInv
  <2> QED BY <2>1, <2>2, <2>3 DEF Running
<1> QED
  BY <1>1, InitDisks, NextDisks, PTL DEF Spec
=============================================================================
