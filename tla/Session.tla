------------------------------ MODULE Session ------------------------------
(***************************************************************************)
(* The process of the host app around ffmpeg: the overlay and the dialog   *)
(* of AudioSend, the conversion of a chosen voice by FFmpeg.runCmd on the  *)
(* main thread, its posted callback, what ffmpeg keeps between two         *)
(* commands, and the downloads that run beside it on the executor and end  *)
(* with a message to the same main thread.                                 *)
(*                                                                         *)
(* A click is a number: the file names of PDialogVoice and downloadVoice   *)
(* are made of the time and taken as unique.  A message of a Handler runs  *)
(* after the ones posted before it; input and lifecycle calls may run      *)
(* before a posted message, since the looper takes input first.            *)
(***************************************************************************)
EXTENDS Integers, Sequences, FiniteSets

CONSTANTS
  Activities,   (* instances of ActivityInputReview                        *)
  MaxClicks,    (* bound: voices chosen                                    *)
  Downloads,    (* calls of DownloadManager.download and downloadVoice     *)
  FileOf,       (* the name of a download's file                           *)
  DirOf,        (* the temporary directory of a download                   *)
  None

ASSUME ClicksAssumption == MaxClicks \in Nat
ASSUME DownloadAssumption ==
  /\ DOMAIN FileOf = Downloads /\ DOMAIN DirOf = Downloads
  /\ \A d, e \in Downloads : FileOf[d] = FileOf[e] => DirOf[d] = DirOf[e]

VARIABLES
  main,             (* where the main thread is in the command, or "exited" *)
  looper,           (* messages posted to the main thread                   *)
  fresh, alive,     (* activities not created yet; created, not destroyed   *)
  imageView,        (* the activity whose overlay is shown                  *)
  dialog,           (* the activity the dialog was made for                 *)
  voiceAutoCovert,
  clicks,           (* voices chosen so far: the last one is the number     *)
  callBack,         (* FFmpeg.callBack: the click it belongs to, 0 for null *)
  tempDir,          (* helperVoiceTemp: the copies of chosen voices         *)
  covertDir,        (* helperVoiceCovert: [click, whole]                    *)
  nb_input_files, input_files,
  sent,             (* history: what was handed to the host last            *)
  awaited,          (* history: the last click of this process to be sent   *)
  task,             (* where each download is                               *)
  doomed,           (* what a download's listing found and it still deletes *)
  disk,             (* temporary files: the downloads that write into it    *)
  whole,            (* history: downloads whose transfer was complete       *)
  inserted,         (* history: what the media store got of each download   *)
  disturbed         (* history: downloads that shared their directory       *)

screen == <<fresh, alive, imageView, dialog, voiceAutoCovert>>
voices == <<clicks, callBack, tempDir, covertDir, sent, awaited>>
native == <<nb_input_files, input_files>>
downloads == <<task, doomed, disk, whole, inserted, disturbed>>
vars == <<main, looper, screen, voices, native, downloads>>

Clicks == 1..MaxClicks
Files == {FileOf[d] : d \in Downloads}
Running == {"clean", "delete", "open", "create", "transfer", "copy", "posted"}
Message == [kind : {"finish"}] \cup [kind : {"saved"}, of : Downloads]

Nothing == [click |-> 0, state |-> "none"]

Init ==
  /\ main = "loop" /\ looper = <<>>
  /\ fresh = Activities /\ alive = {} /\ imageView = None /\ dialog = None
  /\ voiceAutoCovert \in BOOLEAN
  /\ clicks = 0 /\ callBack = 0
  /\ tempDir = {} /\ covertDir = {} /\ sent = Nothing /\ awaited = 0
  /\ nb_input_files = 0 /\ input_files = <<>>
  /\ task = [d \in Downloads |-> "none"]
  /\ doomed = [d \in Downloads |-> {}]
  /\ disk = [f \in Files |-> {}]
  /\ whole = {} /\ inserted = [d \in Downloads |-> "none"] /\ disturbed = {}

Idle == main = "loop"

(***************************************************************************)
(* AudioSend                                                               *)
(***************************************************************************)

initOverlay(a) == imageView' = IF imageView = None THEN a ELSE imageView

(* onCreate: without the permission the overlay comes with a later          *)
(* onActivityResult, or never.                                              *)
CreateActivity(a) ==
  /\ Idle /\ a \in fresh
  /\ fresh' = fresh \ {a} /\ alive' = alive \cup {a}
  /\ \/ initOverlay(a)
     \/ UNCHANGED imageView
  /\ UNCHANGED <<main, looper, dialog, voiceAutoCovert, voices, native,
                 downloads>>

PermissionResult(a) ==
  /\ Idle /\ a \in alive /\ imageView = None
  /\ initOverlay(a)
  /\ UNCHANGED <<main, looper, fresh, alive, dialog, voiceAutoCovert, voices,
                 native, downloads>>

DestroyActivity(a) ==
  /\ Idle /\ a \in alive
  /\ alive' = alive \ {a}
  /\ imageView' = None /\ dialog' = None       \* whoever made them
  /\ UNCHANGED <<main, looper, fresh, voiceAutoCovert, voices, native,
                 downloads>>

OpenDialog ==
  /\ Idle /\ imageView # None /\ dialog = None /\ imageView \in alive
  /\ dialog' = imageView
  /\ UNCHANGED <<main, looper, fresh, alive, imageView, voiceAutoCovert,
                 voices, native, downloads>>

(***************************************************************************)
(* PDialogVoice and FFmpeg                                                 *)
(***************************************************************************)

(* What the callback of click c hands over: a name, and what is there.      *)
Handed(c, temp, covert) ==
  [click |-> c,
   state |-> IF ~voiceAutoCovert
               THEN IF c \in temp THEN "whole" ELSE "none"
             ELSE IF [click |-> c, whole |-> TRUE] \in covert THEN "whole"
             ELSE IF [click |-> c, whole |-> FALSE] \in covert THEN "partial"
             ELSE "none"]

(* Every conversion is deleted with the copies.                             *)
Finish_All(c, temp, covert) ==
  /\ sent' = Handed(c, temp, covert)
  /\ tempDir' = {} /\ covertDir' = {}

(* The callback with the directories as they are: the file is handed over,  *)
(* every copy is deleted and every conversion but its own.                  *)
Finish(c, temp, covert) ==
  /\ sent' = Handed(c, temp, covert)
  /\ tempDir' = {}
  /\ covertDir' = {f \in covert : f.click = c}

(* A click on a voice: the copy may fail, which is only logged.             *)
ChooseVoice ==
  /\ Idle /\ dialog # None /\ clicks < MaxClicks
  /\ LET c == clicks + 1 IN
     /\ clicks' = c /\ awaited' = c
     /\ \E copied \in {{c}, {}} :
          IF voiceAutoCovert
            THEN /\ callBack' = c /\ main' = "parse"
                 /\ tempDir' = tempDir \cup copied
                 /\ UNCHANGED <<covertDir, sent>>
            ELSE /\ Finish(c, tempDir \cup copied, covertDir)
                 /\ UNCHANGED <<callBack, main>>
  /\ UNCHANGED <<looper, screen, native, downloads>>

(* exit_program, or a signal: the host app is gone with the command.        *)
Exits ==
  /\ main' = "exited"
  /\ UNCHANGED <<looper, screen, voices, native, downloads>>

PowersOfTwo == {2 ^ i : i \in 0..MaxClicks}

(* input_files once one more file was added behind nb_input_files elements. *)
(* The array grows when the count is a power of two; after a clean-up it    *)
(* is a new one, and its first elements are whatever the memory held.       *)
allocate_array_elem ==
  [i \in 1..(nb_input_files + 1) |->
     IF i = nb_input_files + 1 THEN "open"
     ELSE IF i <= Len(input_files) THEN input_files[i] ELSE "wild"]

(* Whether the new element is written where there is no array.              *)
WritesThroughNull ==
  /\ input_files = <<>> /\ nb_input_files > 0
  /\ nb_input_files \notin PowersOfTwo

(* ffmpeg_parse_options: the input is opened and the output is mapped from  *)
(* the streams of every input file.  A wild element ends the process, or it *)
(* looks like a file without streams.                                       *)
ParseOptions ==
  /\ main = "parse" /\ ~WritesThroughNull /\ callBack \in tempDir
  /\ input_files' = allocate_array_elem /\ nb_input_files' = nb_input_files + 1
  /\ covertDir' = covertDir \cup {[click |-> callBack, whole |-> FALSE]}
  /\ main' = "transcode"
  /\ UNCHANGED <<looper, screen, clicks, callBack, tempDir, sent,
                 awaited, downloads>>

ParseFails ==
  /\ main = "parse"
  /\ Exits

(* A command that fails to start or decodes too little exits; one whose     *)
(* muxer failed ends like any other.                                        *)
Transcode ==
  /\ main = "transcode"
  /\ \E done \in BOOLEAN :
       covertDir' = {f \in covertDir : f.click # callBack}
                      \cup {[click |-> callBack, whole |-> done]}
  /\ main' = "finish"
  /\ UNCHANGED <<looper, screen, clicks, callBack, tempDir, sent,
                 awaited, native, downloads>>

TranscodeFails ==
  /\ main = "transcode"
  /\ Exits

(* The callback is only made for a command that succeeded.                  *)
finish_callback_OnSuccess ==
  /\ main = "finish"
  /\ looper' = IF [click |-> callBack, whole |-> TRUE] \in covertDir
                 THEN Append(looper, [kind |-> "finish"]) ELSE looper
  /\ main' = "cleanup"
  /\ UNCHANGED <<screen, voices, native, downloads>>

(* The message is posted whatever the command returns.                      *)
finish_callback ==
  /\ main = "finish"
  /\ looper' = Append(looper, [kind |-> "finish"])
  /\ main' = "cleanup"
  /\ UNCHANGED <<screen, voices, native, downloads>>

(* The arrays are freed, their counters stay.                               *)
ffmpeg_cleanup ==
  /\ main = "cleanup"
  /\ input_files' = <<>>
  /\ main' = "loop"
  /\ UNCHANGED <<looper, screen, voices, nb_input_files, downloads>>

(* The posted Runnable reads the static callBack when it runs.              *)
HandleFinish ==
  /\ Idle /\ looper # <<>> /\ Head(looper).kind = "finish"
  /\ looper' = Tail(looper)
  /\ Finish(callBack, tempDir, covertDir)
  /\ UNCHANGED <<main, screen, clicks, callBack, awaited, native,
                 downloads>>

(***************************************************************************)
(* DownloadManager                                                         *)
(***************************************************************************)

At(d, here) == main # "exited" /\ task[d] = here
Moves(d, there) == task' = [task EXCEPT ![d] = there]
Beside(d) == {e \in Downloads \ {d} : DirOf[e] = DirOf[d]
                                       /\ task[e] \in Running}

(* Called on the main thread; the task goes to the executor.  For a video   *)
(* the host's local server is asked first, and the wait is on this thread.  *)
StartDownload(d) ==
  /\ Idle /\ task[d] = "none"
  /\ Moves(d, "clean")
  /\ disturbed' = IF Beside(d) = {} THEN disturbed
                    ELSE disturbed \cup Beside(d) \cup {d}
  /\ UNCHANGED <<main, looper, screen, voices, native, doomed, disk, whole,
                 inserted>>

(* The directory is listed, and what was found is deleted one by one.       *)
ListCache(d) ==
  /\ At(d, "clean")
  /\ doomed' = [doomed EXCEPT ![d] =
                  {f \in Files : disk[f] # {}
                     /\ \E e \in Downloads :
                          FileOf[e] = f /\ DirOf[e] = DirOf[d]}]
  /\ Moves(d, "delete")
  /\ UNCHANGED <<main, looper, screen, voices, native, disk, whole, inserted,
                 disturbed>>

DeleteCached(d) ==
  /\ At(d, "delete")
  /\ IF doomed[d] = {}
       THEN /\ Moves(d, "open")
            /\ disk' = [disk EXCEPT ![FileOf[d]] = {}]
            /\ UNCHANGED doomed
       ELSE \E f \in doomed[d] :
              /\ disk' = [disk EXCEPT ![f] = {}]
              /\ doomed' = [doomed EXCEPT ![d] = @ \ {f}]
              /\ UNCHANGED task
  /\ UNCHANGED <<main, looper, screen, voices, native, whole, inserted,
                 disturbed>>

(* Once the connection is made, download deletes the file once more.        *)
DeleteOld(d) ==
  /\ At(d, "open")
  /\ disk' = [disk EXCEPT ![FileOf[d]] = {}]
  /\ Moves(d, "create")
  /\ UNCHANGED <<main, looper, screen, voices, native, doomed, whole,
                 inserted, disturbed>>

(* The file is truncated: who still writes into it writes beside.           *)
OpenFile(d) ==
  /\ At(d, "create")
  /\ disk' = [disk EXCEPT ![FileOf[d]] = @ \cup {d}]
  /\ Moves(d, "transfer")
  /\ UNCHANGED <<main, looper, screen, voices, native, doomed, whole,
                 inserted, disturbed>>

(* The bytes are written to the open file, which may have been deleted.  A  *)
(* transfer that fails is only logged.                                      *)
Transfer(d) ==
  /\ At(d, "transfer")
  /\ \/ whole' = whole \cup {d}
     \/ UNCHANGED whole
  /\ Moves(d, "copy")
  /\ UNCHANGED <<main, looper, screen, voices, native, doomed, disk,
                 inserted, disturbed>>

(* No connection or no new file: this is only logged as well.               *)
ConnectFails(d) ==
  /\ At(d, "open") \/ At(d, "create")
  /\ Moves(d, "copy")
  /\ UNCHANGED <<main, looper, screen, voices, native, doomed, disk, whole,
                 inserted, disturbed>>

(* The copy to the user's own directory, whose errors are logged as well,   *)
(* and the message to the main thread.                                      *)
CopyAndPost(d) ==
  /\ At(d, "copy")
  /\ Moves(d, "posted")
  /\ looper' = Append(looper, [kind |-> "saved", of |-> d])
  /\ UNCHANGED <<main, screen, voices, native, doomed, disk, whole,
                 inserted, disturbed>>

(* The user's directory is gone: the task ends with its file left.          *)
CopyFails(d) ==
  /\ At(d, "copy")
  /\ Moves(d, "failed")
  /\ UNCHANGED <<main, looper, screen, voices, native, doomed, disk, whole,
                 inserted, disturbed>>

(* What the media store reads under the name of d.                          *)
Read(d) ==
  CASE disk[FileOf[d]] = {}                    -> "none"
    [] disk[FileOf[d]] = {d} /\ d \in whole    -> "whole"
    [] OTHER                                   -> "other"

(* insertVideo and insertVoice: an error of the store is logged, nothing or *)
(* a part is inserted, and the caller does not hear of it.                  *)
insertVideo(d) == {Read(d), "refused"}

(* The file is deleted before it is read.                                   *)
HandleSaved_DeleteFirst ==
  /\ Idle /\ looper # <<>> /\ Head(looper).kind = "saved"
  /\ LET d == Head(looper).of IN
     /\ \E got \in {"none", "refused"} :
          inserted' = [inserted EXCEPT ![d] = got]
     /\ disk' = [disk EXCEPT ![FileOf[d]] = {}]
     /\ Moves(d, "done")
  /\ looper' = Tail(looper)
  /\ UNCHANGED <<main, screen, voices, native, doomed, whole, disturbed>>

(* The file is deleted only when all of it was transferred.                 *)
HandleSaved_IfWhole ==
  /\ Idle /\ looper # <<>> /\ Head(looper).kind = "saved"
  /\ LET d == Head(looper).of IN
     /\ \E got \in insertVideo(d) : inserted' = [inserted EXCEPT ![d] = got]
     /\ disk' = [disk EXCEPT ![FileOf[d]] = IF d \in whole THEN {} ELSE @]
     /\ Moves(d, "done")
  /\ looper' = Tail(looper)
  /\ UNCHANGED <<main, screen, voices, native, doomed, whole, disturbed>>

(* Announced and deleted, whatever was read and whether it was inserted.    *)
HandleSaved ==
  /\ Idle /\ looper # <<>> /\ Head(looper).kind = "saved"
  /\ LET d == Head(looper).of IN
     /\ \E got \in insertVideo(d) : inserted' = [inserted EXCEPT ![d] = got]
     /\ disk' = [disk EXCEPT ![FileOf[d]] = {}]
     /\ Moves(d, "done")
  /\ looper' = Tail(looper)
  /\ UNCHANGED <<main, screen, voices, native, doomed, whole, disturbed>>

(***************************************************************************)
(* The process                                                             *)
(***************************************************************************)

(* A wild element is followed: the process dies on a signal.                *)
CrashOnWild ==
  /\ main = "parse" /\ nb_input_files > Len(input_files)
  /\ Exits

(* The app is killed, whatever its threads are doing.                       *)
Killed ==
  /\ main # "exited"
  /\ Exits

(* A new process: the directories are all that is left of the old one.      *)
RestartApp ==
  /\ main = "exited" /\ main' = "loop" /\ looper' = <<>>
  /\ imageView' = None /\ dialog' = None /\ alive' = {}
  /\ callBack' = 0 /\ awaited' = 0
  /\ nb_input_files' = 0 /\ input_files' = <<>>
  /\ task' = [d \in Downloads |->
               IF task[d] \in Running THEN "killed" ELSE task[d]]
  /\ doomed' = [d \in Downloads |-> {}]
  /\ UNCHANGED <<fresh, voiceAutoCovert, clicks, tempDir, covertDir, sent,
                 disk, whole, inserted, disturbed>>

Screen ==
  \/ \E a \in Activities : \/ CreateActivity(a) \/ PermissionResult(a)
                           \/ DestroyActivity(a)
  \/ OpenDialog \/ ChooseVoice

Command ==
  \/ ParseOptions \/ ParseFails \/ CrashOnWild
  \/ Transcode \/ TranscodeFails
  \/ finish_callback \/ ffmpeg_cleanup

Download(d) ==
  \/ StartDownload(d) \/ ListCache(d) \/ DeleteCached(d)
  \/ DeleteOld(d) \/ OpenFile(d) \/ ConnectFails(d) \/ Transfer(d)
  \/ CopyAndPost(d) \/ CopyFails(d)

Next ==
  \/ Screen \/ Command \/ HandleFinish \/ HandleSaved
  \/ \E d \in Downloads : Download(d)
  \/ Killed \/ RestartApp

Spec == Init /\ [][Next]_vars

(***************************************************************************)
(* Properties                                                              *)
(***************************************************************************)

(* Every variable keeps its type.                                           *)
TypeOK ==
  /\ main \in {"loop", "parse", "transcode", "finish", "cleanup", "exited"}
  /\ looper \in Seq(Message)
  /\ fresh \subseteq Activities /\ alive \subseteq Activities \ fresh
  /\ {imageView, dialog} \subseteq Activities \cup {None}
  /\ voiceAutoCovert \in BOOLEAN
  /\ clicks \in 0..MaxClicks /\ {callBack, awaited} \subseteq 0..clicks
  /\ tempDir \subseteq Clicks
  /\ covertDir \subseteq [click : Clicks, whole : BOOLEAN]
  /\ nb_input_files \in 0..MaxClicks
  /\ input_files \in Seq({"open", "wild"})
  /\ sent \in [click : 0..clicks, state : {"none", "partial", "whole"}]
  /\ task \in [Downloads -> Running \cup {"none", "done", "failed", "killed"}]
  /\ doomed \in [Downloads -> SUBSET Files]
  /\ disk \in [Files -> SUBSET Downloads]
  /\ whole \subseteq Downloads /\ disturbed \subseteq Downloads
  /\ inserted \in [Downloads -> {"none", "whole", "other", "refused"}]

(* The callback is static and a posted finish may find a later command's:   *)
(* still, once no finish is pending, the voice handed over last is the one  *)
(* chosen last.                                                             *)
LastChoiceIsSentLast ==
  (Idle /\ awaited # 0 /\ \A i \in DOMAIN looper : looper[i].kind # "finish")
    => sent.click = awaited

(* The host reads the converted file after M1 has returned: the callback    *)
(* deletes every other one, its caller may be another command's message,    *)
(* the process may have been restarted, and yet the file handed over last   *)
(* was there when it was handed over and is there until the next one is.    *)
SentFileIsKept ==
  (voiceAutoCovert /\ sent # Nothing)
    => /\ sent.state # "none"
       /\ \E f \in covertDir : f.click = sent.click

(* Every download empties the directory it shares with the others, and the  *)
(* main thread deletes the file after its message.  Of one that had the     *)
(* directory for itself from its start to its message, what was transferred *)
(* whole is lost by an error of the media store only: nobody deletes or     *)
(* overwrites it before it is read.                                         *)
AloneIsWhole ==
  \A d \in Downloads :
    (task[d] = "done" /\ d \in whole /\ d \notin disturbed)
      => inserted[d] \in {"whole", "refused"}

(* Temporary files do not pile up: one that no running download and no      *)
(* pending message is about belongs to a download that could not copy it to *)
(* the user's directory or was killed.                                      *)
LeftOversAreFailures ==
  \A f \in Files :
    (/\ disk[f] # {}
     /\ \A d \in Downloads : FileOf[d] = f => task[d] \notin Running)
      => \E d \in disk[f] : task[d] \in {"failed", "killed"}

(* FF_DYNARRAY_ADD counts on the number it is given: when a command starts, *)
(* nb_input_files is the number of elements of input_files.                 *)
CountIsNumberOfElements ==
  main \in {"loop", "parse", "transcode"} => nb_input_files = Len(input_files)
=============================================================================
