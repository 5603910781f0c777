----------------------------- MODULE PublishForm -----------------------------
(***************************************************************************)
(* The form of the Publish tab: typed text, or a file that was imported    *)
(* into memory and shows as a preview until it is published or cleared.    *)
(* What becomes of a publish is in Explorer; here only whether one is      *)
(* pending matters.                                                        *)
(***************************************************************************)
EXTENDS Integers, FiniteSets

CONSTANTS
    Files,        \* files the user may import
    FileSize,     \* their bytes
    PreviewSize,  \* bytes a collapsed preview shows
    Texts         \* what the user types

ASSUME PublishFormAssumption == FileSize \in [Files -> Nat] /\ PreviewSize \in Nat

VARIABLES
    payload,      \* publish_payload, the text box: where its text is from
    imported,     \* publish_payload_bytes: a file's, or none
    filename,     \* publish_payload_filename
    expanded,     \* publish_payload_expanded
    staged,       \* import_memory_bytes
    encoding,     \* publish_encoding
    sending,      \* publish_status is Sending
    sent          \* the last Publish command: at most one

formVars == <<payload, imported, filename, expanded, staged, encoding, sending, sent>>

-----------------------------------------------------------------------------
Typed(t) == [from |-> "user", text |-> t]
Greeting == [from |-> "app", text |-> "Hello Zenoh!"]
ReadError == [from |-> "app", text |-> "Error reading file"]
Nothing == [from |-> "app", text |-> ""]
Preview(f, wide) == [from |-> "file", file |-> f, wide |-> wide]

FormInit ==
    /\ payload = Greeting /\ imported = {} /\ filename = {} /\ expanded = FALSE
    /\ staged = 0 /\ encoding = "text/plain" /\ sending = FALSE /\ sent = {}

ImportFile(f) ==
    /\ filename' = {f} /\ imported' = {f} /\ staged' = FileSize[f]
    /\ expanded' = FALSE
    /\ payload' = Preview(f, FALSE)
    /\ encoding' = "application/octet-stream"
    /\ UNCHANGED <<sending, sent>>

ImportFails ==
    /\ filename' = {} /\ imported' = {} /\ staged' = 0
    /\ expanded' = FALSE
    /\ payload' = ReadError
    /\ UNCHANGED <<encoding, sending, sent>>

ClearImport ==
    /\ imported # {}
    /\ filename' = {} /\ imported' = {} /\ staged' = 0
    /\ expanded' = FALSE
    /\ payload' = Greeting
    /\ encoding' = "text/plain"
    /\ UNCHANGED <<sending, sent>>

\* The button is there for files that a collapsed preview does not show whole.
ToggleExpanded ==
    \E f \in filename \cap imported :
        /\ FileSize[f] > PreviewSize
        /\ expanded' = ~expanded
        /\ payload' = Preview(f, ~expanded)
        /\ UNCHANGED <<filename, imported, staged, encoding, sending, sent>>

Interactive == imported = {}

\* An edit would drop the file, and leave `staged`; the box is read-only.
TypeText(t) ==
    /\ Interactive
    /\ payload' = Typed(t)
    /\ imported' = {}
    /\ filename' = IF imported # {} THEN {} ELSE filename
    /\ expanded' = (expanded /\ imported = {})
    /\ UNCHANGED <<staged, encoding, sending, sent>>

TypeEncoding ==
    /\ encoding' = "user"
    /\ UNCHANGED <<payload, imported, filename, expanded, staged, sending, sent>>

\* Mutant: a file that was published stays staged.
StagedKept == staged
StagedAfterPublish == IF imported # {} THEN 0 ELSE staged

\* The bytes of an import move into the command, whether or not the worker
\* is there to take it; text stays for another publish.
Publishing(workerThere) ==
    /\ ~sending
    /\ sending' = workerThere
    /\ sent' = IF workerThere
               THEN {[file |-> imported, text |-> payload, name |-> filename,
                      encoding |-> encoding]}
               ELSE sent
    /\ imported' = {}
    /\ staged' = StagedAfterPublish
    /\ filename' = IF imported # {} THEN {} ELSE filename
    /\ payload' = IF imported # {} THEN Nothing ELSE payload
    /\ expanded' = (expanded /\ imported = {})
    /\ UNCHANGED encoding

PublishAnswered ==
    /\ sending
    /\ sending' = FALSE
    /\ UNCHANGED <<payload, imported, filename, expanded, staged, encoding, sent>>

FormNext ==
    \/ \E f \in Files : ImportFile(f)
    \/ ImportFails
    \/ ClearImport
    \/ ToggleExpanded
    \/ \E t \in Texts : TypeText(t)
    \/ TypeEncoding
    \/ \E workerThere \in BOOLEAN : Publishing(workerThere)
    \/ PublishAnswered

FormSpec == FormInit /\ [][FormNext]_formVars

-----------------------------------------------------------------------------
PayloadText ==
    {Greeting, ReadError, Nothing} \cup {Typed(t) : t \in Texts}
        \cup {Preview(f, wide) : f \in Files, wide \in BOOLEAN}
Encodings == {"text/plain", "application/octet-stream", "user"}

FormTypeOK ==
    /\ payload \in PayloadText
    /\ imported \subseteq Files /\ filename \subseteq Files
    /\ expanded \in BOOLEAN
    /\ staged \in Nat
    /\ encoding \in Encodings
    /\ sending \in BOOLEAN
    /\ sent \subseteq [file : SUBSET Files, text : PayloadText,
                       name : SUBSET Files, encoding : Encodings]

(* The five fields tell of one payload: a name and a staged size only with  *)
(* the bytes of that file, whose preview the box then shows, and so does    *)
(* every Publish command.  The header's "Staged import" is what is held,    *)
(* and no text is ever sent under the name of a file.  (What the box showed *)
(* when it was sent, `text`, is history: the command has the bytes.)        *)
FormConsistent ==
    /\ filename = imported
    /\ \A f \in imported :
        /\ imported = {f}
        /\ staged = FileSize[f]
        /\ payload = Preview(f, expanded)
    /\ imported = {} => staged = 0 /\ ~expanded /\ payload.from # "file"
    /\ \A c \in sent :
        /\ c.name = c.file
        /\ c.file = {} <=> c.text.from # "file"
        /\ \A f \in c.file : c.text.file = f
=============================================================================
