------------------------------- MODULE LumiLsp -------------------------------
(***************************************************************************)
(* The language server lumils and the editor that it serves, joined by the *)
(* two pipes of stdin and stdout.                                          *)
(*                                                                         *)
(* The server is one thread that reads a message, handles it to its end    *)
(* and writes at most one message for it.  The editor writes without       *)
(* waiting and reads when it likes.  What the server derives from a text   *)
(* (diagnostics, completion items, symbols, hover) is represented by that  *)
(* text: which text an answer is about is what can go wrong here.          *)
(***************************************************************************)
EXTENDS LumiJson, SequencesExt

CONSTANTS
  Uris, Texts,     \* of the documents an editor works on
  IdType,          \* how the editor writes request ids: "primitive" or "string"
  Ids,             \* the id of the request that is its n-th message
  NoText,          \* stands for a document that is not there
  Asked,           \* the methods of its requests about a document
  Bare,            \* the methods of its requests that name no document
  PipeCapacity,    \* messages that a pipe holds before its writer blocks
  MaxSends         \* bound: the messages of a behaviour

Documented == {"textDocument/completion", "textDocument/hover", "textDocument/documentSymbol"}

Handled == Documented \cup {"initialize", "shutdown", "exit", "textDocument/didOpen",
                            "textDocument/didChange", "textDocument/didClose"}

\* An id that was a string and read like the name of a member would be found as that
\* member, and so would a uri "text"; no editor writes either.
ASSUME LspAssumption ==
  /\ IdType \in {"primitive", "string"}
  /\ Asked \subseteq Documented /\ Bare \subseteq Documented \cup {"initialize", "workspace/symbol"}
  /\ PipeCapacity \in Nat \ {0} /\ MaxSends \in Nat
  /\ \A m, n \in 1..MaxSends : Ids[m] = Ids[n] => m = n
  /\ \A n \in 1..MaxSends : Ids[n] \notin {"method", "params"}
  /\ NoText \notin Texts /\ NoString \notin Texts
  /\ Uris \cap {Empty, Garbled, NoString, "text"} = {}
  /\ {Empty, Garbled} \cap (Handled \cup {"initialized", "workspace/symbol"}) = {}

VARIABLES
  docs,       \* document_store: a sequence of [uri, text]
  shutdownRequested,
  exitCode,   \* of main, or Serving
  toServer,   \* stdin: token sequences, or NotJson
  toClient,   \* stdout
  editor,     \* "running", "closed" (stdin at its end) or "gone" (both pipes closed)
  buffers,    \* the editor's documents: uri -> text, or NoText
  shown,      \* the diagnostics it shows: uri -> the text they are about, or NoText
  pending,    \* its requests without an answer: [number, id, expect]
  lastWords,  \* its requests to end the session: a subset of {"shutdown", "exit"}
  sends       \* how many messages it wrote

serverVars == <<docs, shutdownRequested, exitCode>>
editorVars == <<editor, buffers, shown, pending, lastWords, sends>>
lspVars == <<serverVars, toServer, toClient, editorVars>>

Serving == 9     \* stands for an exit code that does not exist yet
NotJson == << >> \* what tokenize_json refuses, or what is no object

LspInit ==
  /\ docs = << >> /\ shutdownRequested = FALSE /\ exitCode = Serving
  /\ toServer = << >> /\ toClient = << >>
  /\ editor = "running"
  /\ buffers = [uri \in Uris |-> NoText]
  /\ shown = [uri \in Uris |-> NoText]
  /\ pending = {} /\ lastWords = {} /\ sends = 0

-----------------------------------------------------------------------------
(* document_store *)

Entries(uri) == {i \in DOMAIN docs : docs[i].uri = uri}

StoreSet_Appends(uri, text) == Append(docs, [uri |-> uri, text |-> text])  \* mutant: the old entry stays
StoreSet(uri, text) ==
  IF Entries(uri) = {} THEN Append(docs, [uri |-> uri, text |-> text])
  ELSE [docs EXCEPT ![Min(Entries(uri))].text = text]

StoreGet(uri) == IF Entries(uri) = {} THEN NoText ELSE docs[Min(Entries(uri))].text

StoreRemove(uri) == IF Entries(uri) = {} THEN docs ELSE RemoveAt(docs, Min(Entries(uri)))

-----------------------------------------------------------------------------
(* What the server writes *)

Stop(code) == exitCode' = code

\* send_message: it blocks while the pipe is full, and fails when nobody reads it.
Sends(message) ==
  IF editor = "gone"
  THEN Stop(1) /\ UNCHANGED toClient
  ELSE /\ Len(toClient) < PipeCapacity
       /\ toClient' = Append(toClient, message)
       /\ UNCHANGED exitCode

Publish(uri, text) == Sends([kind |-> "diagnostics", uri |-> uri, about |-> text])

\* send_response_raw and send_error_response copy the characters of the id token,
\* which leave the quotes of a string behind.
EchoedId(token) == [type |-> "primitive", value |-> token.value]
Respond(token, about) == Sends([kind |-> "answer", id |-> EchoedId(token), about |-> about])
RespondError(token, code) == Respond(token, code)

Quiet == UNCHANGED <<toClient, exitCode>>

-----------------------------------------------------------------------------
(* The handlers *)

Params(tokens) == ObjectGet(tokens, 1, "params")
TextDocument(tokens) == Member(tokens, Params(tokens), "textDocument")
UriIndex(tokens) == Member(tokens, TextDocument(tokens), "uri")

StoreAndPublish(tokens, textIndex) ==
  LET uri == StringAt(tokens, UriIndex(tokens))
      text == StringAt(tokens, textIndex)
  IN  IF UriIndex(tokens) = NoIndex \/ textIndex = NoIndex THEN Quiet /\ UNCHANGED docs
      ELSE IF uri = NoString \/ text = NoString THEN Stop(1) /\ UNCHANGED <<docs, toClient>>
      ELSE docs' = StoreSet(uri, text) /\ Publish(uri, text)

DidOpen(tokens) == StoreAndPublish(tokens, Member(tokens, TextDocument(tokens), "text"))

DidChange(tokens) ==
  LET changes == Member(tokens, Params(tokens), "contentChanges")
  IN  StoreAndPublish(tokens, Member(tokens, ArrayFirst(tokens, changes), "text"))

DidClose_KeepsDiagnostics(tokens) ==  \* mutant: the editor is not told to clear its markers
  LET uri == StringAt(tokens, UriIndex(tokens))
  IN  IF UriIndex(tokens) = NoIndex THEN Quiet /\ UNCHANGED docs
      ELSE IF uri = NoString THEN Stop(1) /\ UNCHANGED <<docs, toClient>>
      ELSE docs' = StoreRemove(uri) /\ Quiet

DidClose(tokens) ==
  LET uri == StringAt(tokens, UriIndex(tokens))
  IN  IF UriIndex(tokens) = NoIndex THEN Quiet /\ UNCHANGED docs
      ELSE IF uri = NoString THEN Stop(1) /\ UNCHANGED <<docs, toClient>>
      ELSE docs' = StoreRemove(uri) /\ Publish(uri, NoText)

\* A document that is not stored completes to the words of the language alone.
Completion(tokens, id) ==
  IF Params(tokens) = NoIndex THEN RespondError(id, "missing params")
  ELSE Respond(id, StoreGet(StringAt(tokens, UriIndex(tokens))))

Hover(tokens, id) ==
  LET position == Member(tokens, Params(tokens), "position")
      line == Member(tokens, position, "line")
      character == Member(tokens, position, "character")
      uri == StringAt(tokens, UriIndex(tokens))
  IN  IF Params(tokens) = NoIndex THEN RespondError(id, "missing params")
      ELSE IF NoIndex \in {UriIndex(tokens), line, character} THEN RespondError(id, "missing position")
      ELSE IF uri = NoString THEN RespondError(id, "invalid uri")
      ELSE IF StoreGet(uri) = NoText THEN Respond(id, NoText)
      ELSE IF ~IsLong(tokens[line]) \/ ~IsLong(tokens[character]) THEN RespondError(id, "invalid position")
      ELSE Respond(id, StoreGet(uri))

DocumentSymbol(tokens, id) ==
  LET uri == StringAt(tokens, UriIndex(tokens))
  IN  IF Params(tokens) = NoIndex THEN RespondError(id, "missing params")
      ELSE IF UriIndex(tokens) = NoIndex THEN RespondError(id, "missing uri")
      ELSE IF uri = NoString THEN RespondError(id, "invalid uri")
      ELSE Respond(id, StoreGet(uri))

-----------------------------------------------------------------------------
(* main *)

Method(tokens) ==
  IF tokens = NotJson THEN NoString ELSE StringAt(tokens, ObjectGet(tokens, 1, "method"))
IdIndex(tokens) == ObjectGet(tokens, 1, "id")

\* The next message has this method, and main takes it from the pipe.
Takes(method) ==
  /\ exitCode = Serving
  /\ toServer # << >>
  /\ Method(Head(toServer)) = method
  /\ toServer' = Tail(toServer)
  /\ UNCHANGED editorVars

Tokens == Head(toServer)
Id == Tokens[IdIndex(Tokens)]
Asks(tokens) == IdIndex(tokens) # NoIndex

ServeInitialize ==
  /\ Takes("initialize")
  /\ IF Asks(Tokens) THEN Respond(Id, "capabilities") ELSE Quiet
  /\ UNCHANGED <<docs, shutdownRequested>>

ServeShutdown_Forgets ==  \* mutant: the request is answered but not remembered
  /\ Takes("shutdown")
  /\ IF Asks(Tokens) THEN Respond(Id, "null") ELSE Quiet
  /\ UNCHANGED <<docs, shutdownRequested>>

ServeShutdown ==
  /\ Takes("shutdown")
  /\ shutdownRequested' = TRUE
  /\ IF Asks(Tokens) THEN Respond(Id, "null") ELSE Quiet
  /\ UNCHANGED docs

ServeExit ==
  /\ Takes("exit")
  /\ Stop(IF shutdownRequested THEN 0 ELSE 1)
  /\ UNCHANGED <<docs, shutdownRequested, toClient>>

ServeNotification ==
  /\ \/ Takes("textDocument/didOpen") /\ DidOpen(Tokens)
     \/ Takes("textDocument/didChange") /\ DidChange(Tokens)
     \/ Takes("textDocument/didClose") /\ DidClose(Tokens)
  /\ UNCHANGED shutdownRequested

ServeRequest ==
  /\ \/ Takes("textDocument/completion") /\ (IF Asks(Tokens) THEN Completion(Tokens, Id) ELSE Quiet)
     \/ Takes("textDocument/hover") /\ (IF Asks(Tokens) THEN Hover(Tokens, Id) ELSE Quiet)
     \/ Takes("textDocument/documentSymbol") /\ (IF Asks(Tokens) THEN DocumentSymbol(Tokens, Id) ELSE Quiet)
  /\ UNCHANGED <<docs, shutdownRequested>>

ServeUnknown_Silent ==  \* mutant: only notifications may be ignored, but requests are too
  /\ toServer # << >>
  /\ Method(Tokens) \notin Handled \cup {NoString}
  /\ Takes(Method(Tokens)) /\ Quiet
  /\ UNCHANGED <<docs, shutdownRequested>>

ServeUnknown ==
  /\ toServer # << >>
  /\ Method(Tokens) \notin Handled \cup {NoString}
  /\ Takes(Method(Tokens))
  /\ IF Asks(Tokens) THEN RespondError(Id, "method not found") ELSE Quiet
  /\ UNCHANGED <<docs, shutdownRequested>>

\* What is no JSON object, or has no method, is passed over.
PassOver ==
  /\ exitCode = Serving
  /\ toServer # << >>
  /\ Method(Head(toServer)) = NoString
  /\ toServer' = Tail(toServer)
  /\ UNCHANGED <<serverVars, toClient, editorVars>>

EndOfInput_Waits ==  \* mutant: the loop goes on reading
  /\ exitCode = Serving
  /\ toServer = << >> /\ editor # "running"
  /\ UNCHANGED lspVars

\* read_message at the end of its input
EndOfInput ==
  /\ exitCode = Serving
  /\ toServer = << >> /\ editor # "running"
  /\ Stop(1)
  /\ UNCHANGED <<docs, shutdownRequested, toServer, toClient, editorVars>>

Serve ==
  \/ ServeInitialize \/ ServeShutdown \/ ServeExit \/ ServeNotification \/ ServeRequest
  \/ ServeUnknown \/ PassOver \/ EndOfInput

-----------------------------------------------------------------------------
(* The editor *)

\* The fixed beginning of a message: the members of the root object (token 1) up to
\* the object of the params, whose index is the length of the envelope.
Envelope(id, method) ==
  <<Token(0, "object", Empty), Field(1, "jsonrpc"), Text(1, "2.0")>>
    \o (IF id = 0 THEN << >> ELSE <<Field(1, "id"), Token(1, IdType, Ids[id])>>)
    \o <<Field(1, "method"), Text(1, method), Field(1, "params"), Token(1, "object", Empty)>>

\* params with a textDocument that has these keys and string values, in turn
WithDocument(id, method, strings) ==
  LET head == Envelope(id, method)
      at == Len(head) + 2
  IN  head \o <<Field(Len(head), "textDocument"), Token(Len(head), "object", Empty)>>
        \o [i \in DOMAIN strings |-> Text(at, strings[i])]

OpenMessage(uri, text) ==
  WithDocument(0, "textDocument/didOpen", <<"uri", uri, "languageId", "lumi", "text", text>>)

ChangeMessage(uri, text) ==
  LET head == WithDocument(0, "textDocument/didChange", <<"uri", uri>>)
      params == Len(Envelope(0, "textDocument/didChange"))
      array == Len(head) + 2
  IN  head \o <<Field(params, "contentChanges"), Token(params, "array", Empty),
                Token(array, "object", Empty), Field(array + 1, "text"), Text(array + 1, text)>>

CloseMessage(uri) == WithDocument(0, "textDocument/didClose", <<"uri", uri>>)

AskMessage(id, method, uri, lineType) ==
  LET head == WithDocument(id, method, <<"uri", uri>>)
      params == Len(Envelope(id, method))
      position == Len(head) + 2
  IN  head \o <<Field(params, "position"), Token(params, "object", Empty),
                Field(position, "line"), Token(position, lineType, "1"), Field(position, "character"), Number(position, "0")>>

Writes(message) ==
  /\ editor = "running" /\ "exit" \notin lastWords
  /\ sends < MaxSends /\ Len(toServer) < PipeCapacity
  /\ toServer' = Append(toServer, message)
  /\ sends' = sends + 1
  /\ UNCHANGED <<serverVars, toClient, editor, shown>>

NextId == sends + 1
WritesRequest(message, expect) ==
  /\ Writes(message)
  /\ pending' = pending \cup
       {[number |-> NextId, id |-> [type |-> IdType, value |-> Ids[NextId]], expect |-> expect]}
  /\ UNCHANGED buffers

Open(uri, text) ==
  /\ buffers[uri] = NoText
  /\ Writes(OpenMessage(uri, text))
  /\ buffers' = [buffers EXCEPT ![uri] = text]
  /\ UNCHANGED <<pending, lastWords>>

Change(uri, text) ==
  /\ buffers[uri] # NoText
  /\ Writes(ChangeMessage(uri, text))
  /\ buffers' = [buffers EXCEPT ![uri] = text]
  /\ UNCHANGED <<pending, lastWords>>

Close(uri) ==
  /\ buffers[uri] # NoText
  /\ Writes(CloseMessage(uri))
  /\ buffers' = [buffers EXCEPT ![uri] = NoText]
  /\ UNCHANGED <<pending, lastWords>>

\* A request about a document, open or not.
Ask(method, uri) ==
  /\ WritesRequest(AskMessage(NextId, method, uri, "primitive"), buffers[uri])
  /\ UNCHANGED lastWords

\* A hover whose line is no number: an error, unless there is no document.
AskAtNoLine(uri) ==
  /\ "textDocument/hover" \in Bare
  /\ WritesRequest(AskMessage(NextId, "textDocument/hover", uri, "string"),
                   IF buffers[uri] = NoText THEN NoText ELSE "invalid position")
  /\ UNCHANGED lastWords

\* A request without a document in its params.
WithoutDocument(method) ==
  CASE method = "textDocument/completion" -> NoText
    [] method = "textDocument/hover" -> "missing position"
    [] method = "textDocument/documentSymbol" -> "missing uri"
    [] method = "initialize" -> "capabilities"
    [] OTHER -> "method not found"

AskNothing(method) ==
  /\ WritesRequest(Envelope(NextId, method), WithoutDocument(method))
  /\ UNCHANGED lastWords

\* A request whose uri has an escape sequence that the server does not read.
AskGarbled(method) ==
  /\ WritesRequest(AskMessage(NextId, method, Garbled, "primitive"),
                   IF method = "textDocument/completion" THEN NoText ELSE "invalid uri")
  /\ UNCHANGED lastWords

\* A notification or a message that the server has no use for.
WriteOther(message) ==
  /\ Writes(message)
  /\ UNCHANGED <<buffers, pending, lastWords>>

Shutdown ==
  /\ "shutdown" \notin lastWords
  /\ WritesRequest(Envelope(NextId, "shutdown"), "null")
  /\ lastWords' = lastWords \cup {"shutdown"}

Exit ==
  /\ Writes(Envelope(0, "exit"))
  /\ lastWords' = lastWords \cup {"exit"}
  /\ UNCHANGED <<buffers, pending>>

\* The editor closes its end of stdin, or dies, possibly in the middle of a message.
HangUp ==
  /\ editor = "running"
  /\ editor' \in {"closed", "gone"}
  /\ toServer' \in {toServer} \cup (IF editor' = "gone" /\ toServer # << >> THEN {Front(toServer)} ELSE {})
  /\ UNCHANGED <<serverVars, toClient, buffers, shown, pending, lastWords, sends>>

\* The editor reads what the server wrote.
Receive ==
  /\ editor # "gone" /\ toClient # << >>
  /\ toClient' = Tail(toClient)
  /\ LET message == Head(toClient) IN
       IF message.kind = "diagnostics"
       THEN /\ shown' = [shown EXCEPT ![message.uri] = message.about]
            /\ UNCHANGED pending
       ELSE /\ pending' = {p \in pending : p.id # message.id}
            /\ UNCHANGED shown
  /\ UNCHANGED <<serverVars, toServer, editor, buffers, lastWords, sends>>

Edit ==
  \/ \E uri \in Uris, text \in Texts : Open(uri, text) \/ Change(uri, text)
  \/ \E uri \in Uris : Close(uri) \/ AskAtNoLine(uri) \/ (\E method \in Asked : Ask(method, uri))
  \/ \E method \in Bare : AskNothing(method) \/ (method \in Documented /\ AskGarbled(method))
  \/ \E message \in {NotJson, Envelope(0, "initialized")} : WriteOther(message)
  \/ Shutdown \/ Exit

LspNext == Serve \/ Edit \/ HangUp \/ Receive

LspSpec == LspInit /\ [][LspNext]_lspVars

\* The server's loop runs on, and an editor reads what it is sent.
FairLspSpec == LspSpec /\ WF_lspVars(Serve) /\ WF_lspVars(Receive)

-----------------------------------------------------------------------------
(* Properties *)

\* Message i of the pipe answers the request p.
Answers(i, p) == toClient[i].kind = "answer" /\ toClient[i].id = p.id

\* When the server has read everything, it holds exactly the editor's open documents,
\* each once and with its last text; when the editor has read everything too, it shows
\* the diagnostics of those texts and none for closed documents.
InSync ==
  exitCode = Serving /\ editor = "running" /\ toServer = << >> =>
    /\ \A uri \in Uris : StoreGet(uri) = buffers[uri] /\ Cardinality(Entries(uri)) <= 1
    /\ toClient = << >> => shown = buffers

\* Answers come in the order of the requests, one for each, with the id of its request
\* and about the text the document had when the editor asked, although the editor has
\* changed or closed it since.
AnswersFit ==
  editor # "gone" =>
    \A i \in DOMAIN toClient : toClient[i].kind = "answer" =>
      \E p \in pending :
        /\ Answers(i, p) /\ toClient[i].about = p.expect
        /\ \A k \in 1..i - 1 : ~Answers(k, p)
        /\ \A q \in pending : q.number < p.number => \E k \in 1..i - 1 : Answers(k, q)

\* The process ends well exactly after a shutdown and then an exit; a session that
\* breaks off, before or after the shutdown, ends with 1.
ExitCodeTells ==
  /\ exitCode = 0 => lastWords = {"shutdown", "exit"}
  /\ exitCode = 1 /\ editor # "gone" => lastWords # {"shutdown", "exit"}

\* Every request is answered, or the session is over.
Answered == pending # {} ~> (pending = {} \/ exitCode # Serving \/ editor = "gone")

\* The server does not outlive its editor.
EndsWithEditor == editor # "running" ~> exitCode # Serving

\* README.md promises diagnostics for a document: the server keeps serving until the
\* editor says exit or closes the pipe, whatever the texts of the documents are.
ServesEveryText == exitCode # Serving => "exit" \in lastWords \/ editor # "running"

\* A reply to JSON-RPC 2.0, which the server's replies say they are, has the id of a request.
RepliesIdentify ==
  \A i \in DOMAIN toClient : toClient[i].kind = "answer" => \E p \in pending : Answers(i, p)
=============================================================================
