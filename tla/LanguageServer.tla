--------------------------- MODULE LanguageServer ---------------------------
(***************************************************************************)
(* The language server dalin-ls (lsp/src/main.rs) at the other end of the  *)
(* pipes of an editor (extensions/vscode-dalan).                           *)
(*                                                                         *)
(* The server reads its standard input line by line and handles one        *)
(* message per line; what it writes is framed by length.  A pipe from the  *)
(* editor is a sequence of pieces: line ends, Content-Length headers and   *)
(* bodies.  A text is a model value: the constants say what the compiler   *)
(* and the providers answer for it.  The versions of the documents, which  *)
(* nothing reads, are left out.                                            *)
(*                                                                         *)
(* The editor is not part of the sources.  It initializes the server and   *)
(* waits for the answer, opens there what is open in the editor, and sends *)
(* every change from then on; if the server dies it starts another one.    *)
(***************************************************************************)
EXTENDS Integers, Sequences, FiniteSets, FiniteSetsExt, SequencesExt

CONSTANTS
    Docs,        \* documents
    Sources,     \* what may be in them
    Broken,      \* texts the lexer or the parser refuses
    Unreadable,  \* texts with a line "fn" whose last ) is before its first (
    Findings,    \* what diagnostics say
    Diagnosis,   \* of a text
    Words,
    Cursors,     \* where the cursor may be
    Origin,      \* first line, first character
    WordAt,      \* what a hover says of a text at a cursor
    Absent,
    MaxSent,     \* bound on what the user does
    MaxServers   \* bound on the servers started

ASSUME LanguageServerAssumption ==
    /\ IsFiniteSet(Docs)
    /\ Broken \subseteq Sources /\ Unreadable \subseteq Sources
    /\ Diagnosis \in [Sources -> Findings]
    /\ Origin \in Cursors /\ WordAt \in [Sources -> [Cursors -> Words \cup {"null"}]]
    /\ MaxSent \in Nat /\ MaxServers \in Nat
    /\ Absent \notin Sources \cup Docs \cup Cursors \cup Findings

VARIABLES
    stdin,    \* pieces the editor wrote and the server has not read
    closed,   \* the editor closed its end
    stdout,   \* replies the editor has not read
    running,  \* the server runs
    docs,     \* DocumentManager.documents
    last,     \* LspCompiler.last_diagnostics
    phase,    \* of the editor's connection
    editor,   \* the texts the user sees
    shown,    \* the diagnostics the user sees
    requests, \* the requests of this connection; an id is a place in it
    answers,  \* the answers as they came
    endsLine, \* whether the editor ends a message with a line end
    sent,     \* what the user did
    servers   \* servers started

server == <<running, docs, last>>
user == <<editor, endsLine, sent, servers>>
serverVars == <<stdin, closed, stdout, server, phase, shown, requests, answers, user>>

Questions == {"completion", "hover", "signatureHelp"}

Closed == [d \in Docs |-> Absent]

ServerInit ==
    /\ stdin = <<>> /\ stdout = <<>> /\ closed = FALSE
    /\ running = FALSE /\ docs = Closed /\ last = Closed
    /\ phase = "off" /\ editor = Closed /\ shown = Closed
    /\ requests = <<>> /\ answers = <<>>
    /\ endsLine \in BOOLEAN /\ sent = 0 /\ servers = 0

-----------------------------------------------------------------------------
(* The editor.  A message is framed the way the server frames its own:     *)
(* header and body; the empty line between them, which the server skips    *)
(* like the header, is taken for a part of it.                             *)
End == [piece |-> "end"]
Framed(message) ==
    <<[piece |-> "header"], End, [piece |-> "body", message |-> message]>>
    \o (IF endsLine THEN <<End>> ELSE <<>>)
\* One after the other; every frame has as many pieces.
FramedAll(messages) ==
    LET pieces == IF endsLine THEN 4 ELSE 3 IN
    [n \in 1 .. pieces * Len(messages) |->
        Framed(messages[((n - 1) \div pieces) + 1])[((n - 1) % pieces) + 1]]

Notice(method, doc, texts) ==
    [id |-> 0, method |-> method, doc |-> doc, texts |-> texts, cursor |-> Absent]
Requested(n, method, doc, cursor) ==
    [Notice(method, doc, <<>>) EXCEPT !.id = n, !.cursor = cursor]

Ask(method, doc, cursor) ==
    LET request == Requested(Len(requests) + 1, method, doc, cursor) IN
    /\ requests' = Append(requests, [message |-> request,
                               text |-> IF doc = Absent THEN Absent ELSE editor[doc]])
    /\ stdin' = stdin \o Framed(request)

Start ==
    /\ phase = "off" /\ servers < MaxServers
    /\ servers' = servers + 1
    /\ running' = TRUE /\ docs' = Closed /\ last' = Closed
    /\ phase' = "waiting"
    /\ Ask("initialize", Absent, Absent)
    /\ UNCHANGED <<closed, stdout, shown, answers, editor, endsLine, sent>>

(* The user opens, types and closes, whether the server is ready or not.   *)
Change(d, method, texts) ==
    /\ phase \in {"waiting", "ready"} /\ sent < MaxSent
    /\ sent' = sent + 1
    /\ (method = "didOpen") = (editor[d] = Absent)
    /\ editor' = [editor EXCEPT ![d] =
                    IF method = "didClose" THEN Absent
                    ELSE IF texts = <<>> THEN @ ELSE Last(texts)]
    /\ stdin' = IF phase = "ready" THEN stdin \o Framed(Notice(method, d, texts)) ELSE stdin
    /\ UNCHANGED <<closed, stdout, server, phase, shown, requests, answers, endsLine, servers>>

Question(method, d, cursor) ==
    /\ phase = "ready" /\ sent < MaxSent
    /\ sent' = sent + 1
    /\ Ask(method, d, cursor)
    /\ UNCHANGED <<closed, stdout, server, phase, shown, answers, editor, endsLine, servers>>

(* deactivate: client.stop asks the server to shut down and waits.         *)
Stop ==
    /\ phase = "ready"
    /\ phase' = "stopping"
    /\ Ask("shutdown", Absent, Absent)
    /\ UNCHANGED <<closed, stdout, server, shown, answers, user>>

OpenDocs == SetToSeq({Notice("didOpen", d, <<editor[d]>>) : d \in {e \in Docs : editor[e] # Absent}})

(* The editor reads a reply; one without an id answers nothing.            *)
Receive ==
    /\ stdout # <<>>
    /\ stdout' = Tail(stdout)
    /\ LET reply == Head(stdout) IN
       \/ /\ reply.type = "diagnostics"
          /\ shown' = [shown EXCEPT ![reply.doc] = reply.result]
          /\ UNCHANGED <<stdin, closed, phase, answers>>
       \/ /\ reply.type = "response" /\ reply.id = 0
          /\ UNCHANGED <<stdin, closed, phase, shown, answers>>
       \/ /\ reply.type = "response" /\ reply.id # 0
          /\ answers' = Append(answers, [id |-> reply.id, result |-> reply.result])
          /\ LET method == requests[reply.id].message.method IN
             \/ /\ method = "initialize"
                /\ phase' = "ready"
                /\ stdin' = stdin \o FramedAll(<<Notice("initialized", Absent, <<>>)>> \o OpenDocs)
                /\ UNCHANGED closed
             \/ /\ method = "shutdown"
                /\ phase' = "stopped"
                /\ stdin' = stdin \o Framed(Notice("exit", Absent, <<>>))
                /\ closed' = TRUE
             \/ method \in Questions /\ UNCHANGED <<stdin, closed, phase>>
          /\ UNCHANGED shown
    /\ UNCHANGED <<server, requests, user>>

(* The server is gone: what it showed and what it was asked is dropped.       *)
Disconnect ==
    /\ ~running /\ stdout = <<>> /\ phase \in {"waiting", "ready", "stopping"}
    /\ phase' = IF phase = "stopping" THEN "stopped" ELSE "off"
    /\ stdin' = <<>> /\ shown' = Closed /\ requests' = <<>> /\ answers' = <<>>
    /\ UNCHANGED <<closed, stdout, server, user>>

-----------------------------------------------------------------------------
(* The server.  lines() yields a line when its end is there, and what is   *)
(* left when the input ends.                                               *)
LineEnd == SelectInSeq(stdin, LAMBDA p : p.piece = "end")
HasLine == LineEnd # 0 \/ (closed /\ stdin # <<>>)
NextLine == IF LineEnd = 0 THEN stdin ELSE SubSeq(stdin, 1, LineEnd - 1)
RestOfInput == IF LineEnd = 0 THEN <<>> ELSE SubSeq(stdin, LineEnd + 1, Len(stdin))

(* Another line is empty, a header, or no JSON: a body and what follows it *)
(* on its line.                                                            *)
IsMessage == Len(NextLine) = 1 /\ NextLine[1].piece = "body"

SkipLine ==
    /\ running /\ HasLine /\ ~IsMessage
    /\ stdin' = RestOfInput
    /\ UNCHANGED <<closed, stdout, server, phase, shown, requests, answers, user>>

Respond(message, result) ==
    stdout' = Append(stdout, [type |-> "response", id |-> message.id, result |-> result])

(* compile_file: what a text the compiler refuses said before is kept.     *)
Checked(d, text) ==
    last' = IF text \in Broken THEN last ELSE [last EXCEPT ![d] = Diagnosis[text]]

Publish(d, text) ==
    stdout' = Append(stdout, [type |-> "diagnostics", doc |-> d, result |-> Diagnosis[text]])

OnInitialize(m) ==
    /\ m.method = "initialize"
    /\ Respond(m, "capabilities")
    /\ UNCHANGED server

OnOpen(m) ==
    /\ m.method = "didOpen"
    /\ docs' = [docs EXCEPT ![m.doc] = m.texts[1]]
    /\ Checked(m.doc, m.texts[1]) /\ Publish(m.doc, m.texts[1])
    /\ UNCHANGED running

(* Mutant of OnChange: the first of several changes is taken.              *)
OnChangeFirst(m) ==
    /\ m.method = "didChange"
    /\ \/ m.texts = <<>> /\ UNCHANGED <<docs, last, stdout>>
       \/ /\ m.texts # <<>>
          /\ docs' = [docs EXCEPT ![m.doc] = Head(m.texts)]
          /\ Checked(m.doc, Head(m.texts)) /\ Publish(m.doc, Head(m.texts))
    /\ UNCHANGED running

OnChange(m) ==
    /\ m.method = "didChange"
    /\ \/ m.texts = <<>> /\ UNCHANGED <<docs, last, stdout>>
       \/ /\ m.texts # <<>>
          /\ docs' = [docs EXCEPT ![m.doc] = Last(m.texts)]
          /\ Checked(m.doc, Last(m.texts)) /\ Publish(m.doc, Last(m.texts))
    /\ UNCHANGED running

OnClose(m) ==
    /\ m.method = "didClose"
    /\ docs' = [docs EXCEPT ![m.doc] = Absent]
    /\ last' = [last EXCEPT ![m.doc] = Absent]
    /\ UNCHANGED <<running, stdout>>

(* The providers, none of which keeps anything.  The completions are the   *)
(* keywords and annotations, whatever the text.                            *)
ProvideCompletions == "items"
ProvideHover(text, cursor) == WordAt[text][cursor]

(* It cuts a line from behind its first ( to its last ): where that is     *)
(* before it the server panics.                                            *)
SignaturesPanic(text) == text \in Unreadable

OnCompletion(m) ==
    /\ m.method = "completion"
    /\ \/ docs[m.doc] = Absent /\ Respond(m, "nothing") /\ UNCHANGED last
       \/ docs[m.doc] # Absent /\ Respond(m, ProvideCompletions) /\ Checked(m.doc, docs[m.doc])
    /\ UNCHANGED <<running, docs>>

(* Mutant of OnHover: where there is no word nothing is answered.          *)
OnHoverSilent(m) ==
    /\ m.method = "hover"
    /\ IF docs[m.doc] = Absent \/ ProvideHover(docs[m.doc], Origin) = "null"
       THEN UNCHANGED stdout
       ELSE Respond(m, ProvideHover(docs[m.doc], Origin))
    /\ UNCHANGED server

(* The position is looked up inside textDocument, where it is not: the     *)
(* cursor is taken to be at the origin.                                    *)
OnHover(m) ==
    /\ m.method = "hover"
    /\ Respond(m, IF docs[m.doc] = Absent THEN "null" ELSE ProvideHover(docs[m.doc], Origin))
    /\ UNCHANGED server

OnSignatureHelp(m) ==
    /\ m.method = "signatureHelp"
    /\ UNCHANGED <<docs, last>>
    /\ IF docs[m.doc] # Absent /\ SignaturesPanic(docs[m.doc])
       THEN running' = FALSE /\ UNCHANGED stdout
       ELSE /\ Respond(m, IF docs[m.doc] = Absent THEN "null" ELSE "signatures")
            /\ UNCHANGED running

(* initialized is answered, and so is, with null, what is not known:       *)
(* shutdown and exit too.                                                  *)
OnOther(m) ==
    /\ m.method \in {"initialized", "shutdown", "exit"}
    /\ Respond(m, "null")
    /\ UNCHANGED server

Handle(m) ==
    \/ OnInitialize(m) \/ OnOpen(m) \/ OnChange(m) \/ OnClose(m)
    \/ OnCompletion(m) \/ OnHover(m) \/ OnSignatureHelp(m) \/ OnOther(m)

ReadMessage ==
    /\ running /\ HasLine /\ IsMessage
    /\ stdin' = RestOfInput
    /\ Handle(NextLine[1].message)
    /\ UNCHANGED <<closed, phase, shown, requests, answers, user>>

EndOfInput ==
    /\ running /\ closed /\ stdin = <<>>
    /\ running' = FALSE
    /\ UNCHANGED <<stdin, closed, stdout, docs, last, phase, shown, requests, answers, user>>

Serve == SkipLine \/ ReadMessage \/ EndOfInput

ServerNext ==
    \/ Start \/ Stop \/ Receive \/ Disconnect \/ Serve
    \/ \E d \in Docs :
          \/ \E t \in Sources : Change(d, "didOpen", <<t>>) \/ Change(d, "didChange", <<t>>)
          \/ \E t \in Sources : \E u \in Sources \ {t} : Change(d, "didChange", <<t, u>>)
          \/ Change(d, "didChange", <<>>) \/ Change(d, "didClose", <<>>)
          \/ \E method \in Questions, cursor \in Cursors : Question(method, d, cursor)

ServerSpec == ServerInit /\ [][ServerNext]_serverVars

(* The loop of the server goes on while there is a line; the editor reads. *)
ServerFairness ==
    WF_serverVars(Serve) /\ WF_serverVars(Receive) /\ WF_serverVars(Disconnect)

-----------------------------------------------------------------------------
(* Once all is read, of an editor that ends its messages with a line end,  *)
(* the server has the texts of the editor, the diagnostics the user sees   *)
(* are those of the text the user sees, and every request was answered     *)
(* once and in its turn: no edit, whether made before the server was       *)
(* ready, several at a time or after a restart, is lost or shown with the  *)
(* diagnostics of another.                                                 *)
Settled == endsLine /\ running /\ phase = "ready" /\ stdin = <<>> /\ stdout = <<>>
SettledMeansCurrent ==
    Settled
    => /\ docs = editor
       /\ \A d \in Docs : editor[d] # Absent => shown[d] = Diagnosis[editor[d]]
       /\ [n \in DOMAIN answers |-> answers[n].id] = [n \in DOMAIN requests |-> n]

(* A message that is framed by its length alone, as the protocol and the   *)
(* server itself do it, is never read.                                     *)
UnendedIsUnread == ~endsLine => answers = <<>> /\ docs = Closed

(* Every request is answered while the server lives, if it ends with a     *)
(* line end, and only then.                                                *)
RequestsAnswered ==
    /\ \A n \in 1 .. MaxSent + 2 :
          endsLine /\ n <= Len(requests) ~> n <= Len(answers) \/ ~running
    /\ []UnendedIsUnread
=============================================================================
