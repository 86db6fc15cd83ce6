---------------------------- MODULE Attachments ----------------------------
(***************************************************************************)
(* Files put into a message (MessageComposer) or into a news                *)
(* (CreateNewsInlineForm), and the rows they become on the server           *)
(* (ChatFilesService, NewsFilesService).                                    *)
(*                                                                         *)
(* Each file is made smaller before it is attached, which is awaited:       *)
(* meanwhile more files may be chosen, some removed, and the whole sent.    *)
(* The chat attaches the files of one choice together, at its end, and      *)
(* counts those it had at its start; the editor inserts them one by one and *)
(* counts all it ever held, also those deleted from the text.               *)
(***************************************************************************)
EXTENDS Naturals, FiniteSets

CONSTANTS
    Files,          \* bound: files that can be chosen
    MaxFiles,       \* MAX_FILES of the chat, MAX_IMAGES of the editor
    MaxFailuresOfForm

ASSUME FilesAssumption == IsFiniteSet(Files) /\ MaxFiles \in Nat

VARIABLES
    form,       \* the page: which form, what it holds, what is being added or sent
    stored,     \* server: rows of files, and the sets of files of what was posted
    formLog     \* history

formVars == <<form, stored, formLog>>

Editor == form.kind = "news"
Chosen == (UNION {a.left \cup a.done : a \in form.adding}) \cup formLog.chosen

-----------------------------------------------------------------------------
\* addFiles, addImages: a choice of files, or a paste, or a drop.
ChooseFiles(S) ==
    /\ S # {} /\ S \cap Chosen = {}
    /\ form' = [form EXCEPT !.adding = @ \cup
          {[left |-> S, done |-> {}, had |-> Cardinality(form.tray)]}]
    /\ formLog' = [formLog EXCEPT !.chosen = @ \cup S,
                                  !.crossed = @ \/ form.adding # {}]
    /\ UNCHANGED stored

Full(a) ==
    IF Editor THEN Cardinality(form.kept) >= MaxFiles
    ELSE a.had + Cardinality(a.done) >= MaxFiles

\* The next file is within the limit and its smaller copy is awaited.
Shrink(a, f) ==
    /\ a \in form.adding /\ f \in a.left /\ ~Full(a)
    /\ \A b \in form.shrinking : b.of # a
    /\ form' = [form EXCEPT !.shrinking = @ \cup {[of |-> a, file |-> f]}]
    /\ UNCHANGED <<stored, formLog>>

\* The rest of the choice is dropped with a message.
StopAtLimit(a) ==
    /\ a \in form.adding /\ a.left # {} /\ Full(a)
    /\ \A b \in form.shrinking : b.of # a
    /\ form' = [form EXCEPT !.adding = (@ \ {a}) \cup {[a EXCEPT !.left = {}]}]
    /\ formLog' = [formLog EXCEPT !.refused = @ \cup a.left]
    /\ UNCHANGED stored

\* Too large even so, or of a wrong type: not attached.
Shrunk(b, fits) ==
    /\ b \in form.shrinking
    /\ LET a == [b.of EXCEPT !.left = @ \ {b.file},
                    !.done = IF fits /\ ~Editor THEN @ \cup {b.file} ELSE @]
       IN  form' = [form EXCEPT
              !.shrinking = @ \ {b},
              !.adding = (@ \ {b.of}) \cup {a},
              !.tray = IF fits /\ Editor THEN @ \cup {b.file} ELSE @,
              !.kept = IF fits /\ Editor THEN @ \cup {b.file} ELSE @]
    /\ formLog' = [formLog EXCEPT !.refused = IF fits THEN @ ELSE @ \cup {b.file}]
    /\ UNCHANGED stored

EndAdding(a) ==
    /\ a \in form.adding /\ a.left = {}
    /\ form' = [form EXCEPT !.adding = @ \ {a}, !.tray = @ \cup a.done]
    /\ UNCHANGED <<stored, formLog>>

\* removePending, or the image deleted from the text.
RemoveFile(f) ==
    /\ f \in form.tray
    /\ form' = [form EXCEPT !.tray = @ \ {f}]
    /\ formLog' = [formLog EXCEPT !.refused = @ \cup {f}]
    /\ UNCHANGED stored

-----------------------------------------------------------------------------
\* handleSend, handleSubmit: what the form holds now.
SendForm ==
    /\ form.sending = {} /\ form.tray # {}
    /\ form' = [form EXCEPT !.sending = form.tray, !.uploaded = {}]
    /\ UNCHANGED <<stored, formLog>>

\* saveAll: one INSERT for each file, in no transaction; multer first refuses more
\* files than the limit.
SaveFile(f) ==
    /\ f \in form.sending \ form.uploaded
    /\ Cardinality(form.sending) <= MaxFiles
    /\ stored' = [stored EXCEPT !.files = @ \cup {f}]
    /\ form' = [form EXCEPT !.uploaded = @ \cup {f}]
    /\ UNCHANGED formLog

\* All are stored: the message or the news is posted with them, and the form cleared,
\* of what was attached meanwhile too.
EndSending ==
    /\ form.sending # {} /\ form.uploaded = form.sending
    /\ stored' = [stored EXCEPT !.posts = @ \cup {form.sending}]
    /\ form' = [form EXCEPT !.tray = {}, !.kept = {}, !.sending = {}, !.uploaded = {}]
    /\ formLog' = [formLog EXCEPT !.overtaken = @ \cup (form.tray \ form.sending)]

\* Mutant: the form is cleared although the sending failed.
FailAndClear ==
    /\ form.sending # {} /\ formLog.failures < MaxFailuresOfForm
    /\ formLog' = [formLog EXCEPT !.failures = @ + 1]
    /\ form' = [form EXCEPT !.sending = {}, !.uploaded = {}, !.tray = {}]
    /\ UNCHANGED stored

\* Too many files, an INSERT that fails, or the network: the form stays as it is.
FailSending ==
    /\ form.sending # {}
    /\ \/ /\ Cardinality(form.sending) > MaxFiles
          /\ UNCHANGED formLog
       \/ /\ formLog.failures < MaxFailuresOfForm
          /\ formLog' = [formLog EXCEPT !.failures = @ + 1]
    /\ form' = [form EXCEPT !.sending = {}, !.uploaded = {}]
    /\ UNCHANGED stored

\* The news is posted and the answer is lost: the form stays, for a second news.
LosePosted ==
    /\ Editor /\ form.sending # {} /\ form.uploaded = form.sending
    /\ formLog.failures < MaxFailuresOfForm
    /\ formLog' = [formLog EXCEPT !.failures = @ + 1]
    /\ stored' = [stored EXCEPT !.posts = @ \cup {form.sending}]
    /\ form' = [form EXCEPT !.sending = {}, !.uploaded = {}]

-----------------------------------------------------------------------------
FormInit ==
    /\ \E kind \in {"chat", "news"} :
          form = [kind |-> kind, tray |-> {}, kept |-> {}, adding |-> {}, shrinking |-> {},
                  sending |-> {}, uploaded |-> {}]
    /\ stored = [files |-> {}, posts |-> {}]
    /\ formLog = [chosen |-> {}, refused |-> {}, overtaken |-> {}, crossed |-> FALSE,
                  failures |-> 0]

FormNext ==
    \/ \E S \in SUBSET Files : ChooseFiles(S)
    \/ \E a \in form.adding :
          StopAtLimit(a) \/ EndAdding(a) \/ \E f \in a.left : Shrink(a, f)
    \/ \E b \in form.shrinking, fits \in BOOLEAN : Shrunk(b, fits)
    \/ \E f \in Files : RemoveFile(f) \/ SaveFile(f)
    \/ SendForm \/ EndSending \/ FailSending \/ LosePosted

FormSpec == FormInit /\ [][FormNext]_formVars

-----------------------------------------------------------------------------
\* A file the user chose is attached, on its way or posted: it leaves the form only when
\* he removes it, the form refuses it, or the form is cleared by a sending that it came
\* too late for.
ChosenFilesArrive ==
    \A f \in formLog.chosen :
        \/ f \in form.tray \cup (UNION stored.posts)
        \/ \E a \in form.adding : f \in a.left \cup a.done
        \/ f \in formLog.refused \cup formLog.overtaken

\* The form never holds more than the server takes, but when two choices overlap; what
\* is posted never does.
FormWithinLimit ==
    /\ Cardinality(form.tray) > MaxFiles => formLog.crossed
    /\ \A P \in stored.posts : Cardinality(P) <= MaxFiles /\ P \subseteq stored.files

-----------------------------------------------------------------------------
(* The inductive invariant, from which ScreensProofs has the properties *)

Choice(a) ==
    DOMAIN a = {"left", "done", "had"} /\ a.left \subseteq Files /\ a.done \subseteq Files
    /\ a.had \in Nat

FormTypeOK ==
    /\ DOMAIN form = {"kind", "tray", "kept", "adding", "shrinking", "sending", "uploaded"}
    /\ form.tray \subseteq Files /\ form.kept \subseteq Files /\ form.sending \subseteq Files
    /\ \A a \in form.adding : Choice(a)
    /\ DOMAIN stored = {"files", "posts"}
    /\ DOMAIN formLog = {"chosen", "refused", "overtaken", "crossed", "failures"}
    /\ formLog.crossed \in BOOLEAN

\* Each file being made smaller is of a choice not ended, and no other of that choice is.
ShrinksApart ==
    /\ \A b \in form.shrinking : b.of \in form.adding /\ b.file \in b.of.left
    /\ \A b, c \in form.shrinking : b.of = c.of => b = c

\* A file is stored for a sending only when the server takes all of it.
SendingFits ==
    /\ form.uploaded \subseteq form.sending \cap stored.files
    /\ form.uploaded # {} => Cardinality(form.sending) <= MaxFiles
    /\ \A P \in stored.posts : Cardinality(P) <= MaxFiles /\ P \subseteq stored.files

\* The editor inserts its files one by one, the chat attaches those of a choice at its end.
EditorInserts ==
    Editor => form.tray \subseteq form.kept /\ \A a \in form.adding : a.done = {}

\* Unless two choices overlap there is one, which leaves room for the file being made
\* smaller.
RoomLeft ==
    ~formLog.crossed =>
        /\ \A a, b \in form.adding : a = b
        /\ Cardinality(form.tray) <= MaxFiles
        /\ Editor =>
              /\ Cardinality(form.kept) <= MaxFiles
              /\ form.shrinking # {} => Cardinality(form.kept) < MaxFiles
        /\ ~Editor =>
              /\ \A a \in form.adding :
                    Cardinality(form.tray) <= a.had /\ a.had + Cardinality(a.done) <= MaxFiles
              /\ \A b \in form.shrinking : b.of.had + Cardinality(b.of.done) < MaxFiles

FormInv ==
    /\ FormTypeOK /\ ShrinksApart /\ ChosenFilesArrive
    /\ SendingFits /\ EditorInserts /\ RoomLeft
=============================================================================
