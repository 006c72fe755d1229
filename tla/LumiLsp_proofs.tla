---------------------------- MODULE LumiLsp_proofs ----------------------------
(***************************************************************************)
(* For every set of documents and texts, every capacity of the pipes and   *)
(* every number of messages.                                               *)
(*                                                                         *)
(* The messages are sequences of tokens in which the server looks members  *)
(* up, so the first part shows what the lookups find in each message that  *)
(* the editor writes, and the second what the server then does with it.    *)
(* The invariant LspInv relates the two ends of the pipes: there is a      *)
(* history of the editor's documents, one state per message, such that the *)
(* server's store is the state after the messages it has taken, and each   *)
(* message still in the pipe leads from its state to the next (Linked); a  *)
(* request carries the number of its message, and it is answered in the    *)
(* pipe back exactly when that message has been taken (InTurn); what the   *)
(* editor shows, once it has read the pipe back, is what the store holds   *)
(* (Displayed).  LastWordsOK says the same of shutdown and exit, for texts *)
(* that the server can read.                                               *)
(***************************************************************************)
EXTENDS LumiLsp, SequenceTheorems, FiniteSetTheorems, TLAPS

-----------------------------------------------------------------------------
(* Tokens and what a lookup finds *)

Methods == Handled \cup {"initialized", "workspace/symbol"}
Keys == {"jsonrpc", "id", "method", "params", "textDocument", "uri", "languageId", "text", "contentChanges",
         "position", "line", "character"}
Values == Keys \cup Methods \cup Uris \cup Texts \cup {Empty, Garbled, "2.0", "lumi", "0", "1"}
            \cup {Ids[n] : n \in 1..MaxSends}
Types == {"object", "array", "string", "primitive"}
LspTokens == [parent : Nat, type : Types, value : Values]

LEMMA ValuesHold ==
  /\ Keys \subseteq Values /\ Methods \subseteq Values
  /\ {Empty, Garbled, "2.0", "lumi", "0", "1"} \subseteq Values
  /\ Uris \subseteq Values /\ Texts \subseteq Values
  /\ \A n \in 1..MaxSends : Ids[n] \in Values
BY DEF Values

LEMMA TokensTyped ==
  \A p \in Nat, v \in Values :
    /\ \A type \in Types : Token(p, type, v) \in LspTokens
    /\ Text(p, v) \in LspTokens /\ Field(p, v) \in LspTokens /\ Number(p, v) \in LspTokens
<1> SUFFICES ASSUME NEW p \in Nat, NEW v \in Values, NEW type \in Types
             PROVE  Token(p, type, v) \in LspTokens
  BY DEF Text, Field, Number, Types
<1> QED BY DEF LspTokens, Token

\* Tokens are equal when their parents, types and values are.
LEMMA TokensDiffer ==
  \A o, p, t, v, key :
    /\ Token(p, t, v) = Text(o, key) <=> p = o /\ t = "string" /\ v = key
    /\ Text(p, v) = Text(o, key) <=> p = o /\ v = key
    /\ Field(p, v) = Text(o, key) <=> p = o /\ v = key
    /\ Number(p, v) # Text(o, key)
    /\ Token(p, t, v).parent = p /\ Text(p, v).parent = p /\ Field(p, v).parent = p /\ Number(p, v).parent = p
BY DEF Token, Text, Field, Number

\* json_object_get finds the token behind the first one that reads like the key ...
LEMMA Lookup ==
  ASSUME NEW S, NEW m \in Seq(S), NEW o \in 1..Len(m), NEW key, NEW i \in o + 1 .. Len(m) - 1,
         m[i] = Text(o, key), \A k \in o + 1 .. i - 1 : m[k] # Text(o, key)
  PROVE  ObjectGet(m, o, key) = i + 1
<1> DEFINE hits == {j \in o + 1 .. Len(m) - 1 : m[j] = Text(o, key)}
<1>1. Len(m) \in Nat /\ DOMAIN m = 1..Len(m) OBVIOUS
<1>2. i \in hits /\ \A j \in hits : i <= j /\ j \in Nat BY <1>1
<1>3. Min(hits) = i
  <2> HIDE DEF hits
  <2>1. \E x \in hits : \A y \in hits : x <= y BY <1>2
  <2>2. Min(hits) \in hits /\ \A y \in hits : Min(hits) <= y BY <2>1 DEF Min
  <2>3. i \in Nat /\ Min(hits) \in Nat BY <1>2, <2>2
  <2> QED BY <1>2, <2>2, <2>3
<1>4. hits # {} BY <1>2
<1> QED BY <1>1, <1>3, <1>4 DEF ObjectGet

\* ... and nothing where no token reads like it.
LEMMA NoLookup ==
  ASSUME NEW S, NEW m \in Seq(S), NEW o \in 1..Len(m), NEW key,
         \A k \in o + 1 .. Len(m) - 1 : m[k] # Text(o, key)
  PROVE  ObjectGet(m, o, key) = NoIndex
<1>1. DOMAIN m = 1..Len(m) OBVIOUS
<1>2. {j \in o + 1 .. Len(m) - 1 : m[j] = Text(o, key)} = {} OBVIOUS
<1> QED BY <1>1, <1>2 DEF ObjectGet

\* json_array_first: an element that stands right behind its array is the first one.
LEMMA FirstElement ==
  ASSUME NEW S, NEW m \in Seq(S), NEW a \in 1..Len(m), a # NoIndex, a + 1 <= Len(m), m[a + 1].parent = a
  PROVE  ArrayFirst(m, a) = a + 1
<1> DEFINE elements == {i \in a + 1 .. Len(m) : m[i].parent = a}
<1>1. Len(m) \in Nat /\ DOMAIN m = 1..Len(m) OBVIOUS
<1>2. a + 1 \in elements /\ \A j \in elements : a + 1 <= j /\ j \in Nat BY <1>1
<1>3. Min(elements) = a + 1
  <2> HIDE DEF elements
  <2>1. \E x \in elements : \A y \in elements : x <= y BY <1>2
  <2>2. Min(elements) \in elements /\ \A y \in elements : Min(elements) <= y BY <2>1 DEF Min
  <2>3. a + 1 \in Nat /\ Min(elements) \in Nat BY <1>2, <2>2
  <2> QED BY <1>2, <2>2, <2>3
<1>4. elements # {} BY <1>2
<1> QED BY <1>1, <1>3, <1>4 DEF ArrayFirst

-----------------------------------------------------------------------------
(* The messages of the editor, token by token *)

\* The head of a message without an id ...
Notifies(m, method) ==
  /\ m \in Seq(LspTokens) /\ Len(m) >= 7
  /\ m[2] = Field(1, "jsonrpc") /\ m[3] = Text(1, "2.0")
  /\ m[4] = Field(1, "method") /\ m[5] = Text(1, method)
  /\ m[6] = Field(1, "params") /\ m[7] = Token(1, "object", Empty)
  /\ \A i \in 8..Len(m) : m[i].parent # 1

\* ... and of request n.
Requests(m, n, method) ==
  /\ m \in Seq(LspTokens) /\ Len(m) >= 9
  /\ m[2] = Field(1, "jsonrpc") /\ m[3] = Text(1, "2.0")
  /\ m[4] = Field(1, "id") /\ m[5] = Token(1, IdType, Ids[n])
  /\ m[6] = Field(1, "method") /\ m[7] = Text(1, method)
  /\ m[8] = Field(1, "params") /\ m[9] = Token(1, "object", Empty)

LEMMA Envelopes ==
  /\ \A method \in Methods :
       Notifies(Envelope(0, method), method) /\ Len(Envelope(0, method)) = 7
  /\ \A n \in 1..MaxSends, method \in Methods :
       Requests(Envelope(n, method), n, method) /\ Len(Envelope(n, method)) = 9
<1> SUFFICES ASSUME NEW n \in 0..MaxSends, NEW method \in Methods
    PROVE  /\ n = 0 => Notifies(Envelope(0, method), method) /\ Len(Envelope(0, method)) = 7
           /\ n # 0 => Requests(Envelope(n, method), n, method) /\ Len(Envelope(n, method)) = 9
  BY LspAssumption
<1> DEFINE root == <<Token(0, "object", Empty), Field(1, "jsonrpc"), Text(1, "2.0")>>
           id == <<Field(1, "id"), Token(1, IdType, Ids[n])>>
           tail == <<Field(1, "method"), Text(1, method), Field(1, "params"), Token(1, "object", Empty)>>
<1>1. /\ "jsonrpc" \in Values /\ "id" \in Values /\ "method" \in Values /\ "params" \in Values
      /\ "2.0" \in Values /\ Empty \in Values /\ method \in Values
      /\ n # 0 => Ids[n] \in Values
  BY ValuesHold DEF Keys
<1>2. /\ Token(0, "object", Empty) \in LspTokens /\ Token(1, "object", Empty) \in LspTokens
      /\ Field(1, "jsonrpc") \in LspTokens /\ Text(1, "2.0") \in LspTokens
      /\ Field(1, "id") \in LspTokens /\ Field(1, "method") \in LspTokens /\ Field(1, "params") \in LspTokens
      /\ Text(1, method) \in LspTokens
      /\ n # 0 => Token(1, IdType, Ids[n]) \in LspTokens
  BY <1>1, TokensTyped, LspAssumption DEF Types
<1>3. root \in Seq(LspTokens) /\ tail \in Seq(LspTokens) BY <1>2
<1>4. Len(root) = 3 /\ Len(tail) = 4 OBVIOUS
<1>5. CASE n = 0
  <2>1. Envelope(n, method) = root \o << >> \o tail BY <1>5 DEF Envelope
  <2>2. root \o << >> = root BY <1>3, ConcatEmptySeq
  <2>3. /\ root \o tail \in Seq(LspTokens) /\ Len(root \o tail) = Len(root) + Len(tail)
        /\ \A i \in 1..Len(root) : (root \o tail)[i] = root[i]
        /\ \A i \in 1..Len(tail) : (root \o tail)[Len(root) + i] = tail[i]
    <3> HIDE DEF root, tail
    <3> QED BY <1>3
  <2> DEFINE m == root \o tail
  <2>4. m[2] = root[2] /\ m[3] = root[3] BY <2>3
  <2>5. m[3 + 1] = tail[1] /\ m[3 + 2] = tail[2] /\ m[3 + 3] = tail[3] /\ m[3 + 4] = tail[4]
    <3> HIDE DEF root, tail
    <3> QED BY <2>3, <1>4
  <2>6. Len(m) = 7 /\ m \in Seq(LspTokens) BY <2>3
  <2>7. Envelope(0, method) = m BY <2>1, <2>2, <1>5
  <2> HIDE DEF m
  <2> QED BY <1>5, <2>4, <2>5, <2>6, <2>7 DEF Notifies
<1>6. CASE n # 0
  <2> DEFINE head == root \o id
             m == head \o tail
  <2>1. Envelope(n, method) = m BY <1>6 DEF Envelope
  <2>2. id \in Seq(LspTokens) BY <1>2, <1>6
  <2>3. /\ head \in Seq(LspTokens) /\ Len(head) = Len(root) + Len(id)
        /\ \A i \in 1..Len(root) : head[i] = root[i]
        /\ \A i \in 1..Len(id) : head[Len(root) + i] = id[i]
    <3> HIDE DEF root, id
    <3> QED BY <1>3, <2>2
  <2>4. head[2] = root[2] /\ head[3] = root[3] BY <2>3
  <2>5. Len(head) = 5 /\ head[3 + 1] = id[1] /\ head[3 + 2] = id[2]
    <3>1. Len(id) = 2 OBVIOUS
    <3> HIDE DEF root, id, head
    <3> QED BY <2>3, <1>4, <3>1
  <2>6. head \in Seq(LspTokens) BY <2>3
  <2>7. /\ m \in Seq(LspTokens) /\ Len(m) = Len(head) + Len(tail)
        /\ \A i \in 1..Len(head) : m[i] = head[i]
        /\ \A i \in 1..Len(tail) : m[Len(head) + i] = tail[i]
    <3> HIDE DEF head, tail
    <3> QED BY <1>3, <2>6
  <2>8. Len(m) = 9 /\ m[2] = head[2] /\ m[3] = head[3] /\ m[4] = head[4] /\ m[5] = head[5]
    <3> HIDE DEF m, head, tail
    <3> QED BY <2>7, <2>5, <1>4
  <2>9. m[5 + 1] = tail[1] /\ m[5 + 2] = tail[2] /\ m[5 + 3] = tail[3] /\ m[5 + 4] = tail[4]
    <3> HIDE DEF m, head, tail
    <3> QED BY <2>7, <2>5, <1>4
  <2>10. head[4] = Field(1, "id") /\ head[5] = Token(1, IdType, Ids[n]) 
    <3> HIDE DEF head
    <3> QED BY <2>5
  <2>11. head[2] = Field(1, "jsonrpc") /\ head[3] = Text(1, "2.0")
    <3> HIDE DEF head
    <3> QED BY <2>4
  <2>12. Requests(m, n, method)
    <3> HIDE DEF m, head
    <3>1. /\ m[6] = Field(1, "method") /\ m[7] = Text(1, method)
          /\ m[8] = Field(1, "params") /\ m[9] = Token(1, "object", Empty)
      BY <2>9
    <3>2. /\ m[2] = Field(1, "jsonrpc") /\ m[3] = Text(1, "2.0")
          /\ m[4] = Field(1, "id") /\ m[5] = Token(1, IdType, Ids[n])
      BY <2>8, <2>10, <2>11
    <3>3. m \in Seq(LspTokens) BY <2>7
    <3>4. Len(m) >= 9 BY <2>8
    <3> HIDE DEF root, id, tail
    <3> QED BY <3>1, <3>2, <3>3, <3>4 DEF Requests
  <2> HIDE DEF m
  <2> QED BY <1>6, <2>1, <2>8, <2>12
<1> QED BY <1>5, <1>6

LEMMA MethodsAreNone ==
  \A method \in Methods : method \notin {Empty, Garbled, NoString, "jsonrpc", "2.0", "id", "method", "params"}
BY LspAssumption DEF Methods, Handled, Documented, NoString

\* What main reads from the head of a notification ...
LEMMA NotifiesReads ==
  ASSUME NEW m, NEW method \in Methods, Notifies(m, method)
  PROVE  m # NotJson /\ Method(m) = method /\ IdIndex(m) = NoIndex /\ Params(m) = 7
<1>1. m \in Seq(LspTokens) /\ Len(m) \in Nat /\ Len(m) >= 7 /\ m # NotJson /\ 1 \in 1..Len(m)
  BY DEF Notifies, NotJson
<1>2. /\ m[2] = Field(1, "jsonrpc") /\ m[3] = Text(1, "2.0") /\ m[4] = Field(1, "method")
      /\ m[5] = Text(1, method) /\ m[6] = Field(1, "params") /\ m[7] = Token(1, "object", Empty)
  BY DEF Notifies
<1>3. ObjectGet(m, 1, "method") = 4 + 1
  <2>1. m[4] = Text(1, "method") /\ m[2] # Text(1, "method") /\ m[3] # Text(1, "method")
    BY <1>2 DEF Text, Field, Token
  <2>2. 4 \in 1 + 1 .. Len(m) - 1 /\ \A k \in 1 + 1 .. 4 - 1 : k = 2 \/ k = 3 BY <1>1
  <2> QED BY <1>1, <2>1, <2>2, Lookup
<1>4. Method(m) = method
  <2>1. m[5].type = "string" /\ m[5].value = method BY <1>2 DEF Text, Token
  <2> QED BY <1>1, <1>3, <2>1, MethodsAreNone DEF Method, StringAt, JsonString, NoIndex
<1>5. IdIndex(m) = NoIndex
  <2>1. \A k \in 2..6 : m[k] # Text(1, "id")
    <3>1. /\ m[2] # Text(1, "id") /\ m[3] # Text(1, "id") /\ m[4] # Text(1, "id")
          /\ m[5] # Text(1, "id") /\ m[6] # Text(1, "id")
      BY <1>2, MethodsAreNone DEF Text, Field, Token
    <3> QED BY <3>1
  <2>2. m[7] # Text(1, "id") BY <1>2 DEF Text, Field, Token
  <2>3. \A k \in 8..Len(m) : m[k] # Text(1, "id") BY DEF Notifies, Text, Token
  <2>4. \A k \in 1 + 1 .. Len(m) - 1 : k \in 2..6 \/ k = 7 \/ k \in 8..Len(m) BY <1>1
  <2>5. \A k \in 1 + 1 .. Len(m) - 1 : m[k] # Text(1, "id") BY <2>1, <2>2, <2>3, <2>4
  <2> QED BY <1>1, <2>5, NoLookup DEF IdIndex
<1>6. Params(m) = 6 + 1
  <2>1. /\ m[2] # Text(1, "params") /\ m[3] # Text(1, "params") /\ m[4] # Text(1, "params")
        /\ m[5] # Text(1, "params") /\ m[6] = Text(1, "params")
    BY <1>2, MethodsAreNone DEF Text, Field, Token
  <2>2. 6 \in 1 + 1 .. Len(m) - 1 /\ \A k \in 1 + 1 .. 6 - 1 : k = 2 \/ k = 3 \/ k = 4 \/ k = 5 BY <1>1
  <2> QED BY <1>1, <2>1, <2>2, Lookup DEF Params
<1> QED BY <1>1, <1>4, <1>5, <1>6

\* ... and of a request.
LEMMA RequestsReads ==
  ASSUME NEW m, NEW n \in 1..MaxSends, NEW method \in Methods, Requests(m, n, method)
  PROVE  /\ m # NotJson /\ Method(m) = method /\ Params(m) = 9
         /\ IdIndex(m) = 5 /\ m[5] = Token(1, IdType, Ids[n])
<1>1. m \in Seq(LspTokens) /\ Len(m) \in Nat /\ Len(m) >= 9 /\ m # NotJson /\ 1 \in 1..Len(m)
  BY DEF Requests, NotJson
<1>2. /\ m[2] = Field(1, "jsonrpc") /\ m[3] = Text(1, "2.0") /\ m[4] = Field(1, "id")
      /\ m[5] = Token(1, IdType, Ids[n]) /\ m[6] = Field(1, "method") /\ m[7] = Text(1, method)
      /\ m[8] = Field(1, "params")
  BY DEF Requests
<1>3. Ids[n] # "method" /\ Ids[n] # "params" BY LspAssumption
<1>4. Method(m) = method
  <2>1. /\ m[2] # Text(1, "method") /\ m[3] # Text(1, "method") /\ m[4] # Text(1, "method")
        /\ m[5] # Text(1, "method") /\ m[6] = Text(1, "method")
    BY <1>2, <1>3 DEF Text, Field, Token
  <2>2. 6 \in 1 + 1 .. Len(m) - 1 /\ \A k \in 1 + 1 .. 6 - 1 : k = 2 \/ k = 3 \/ k = 4 \/ k = 5 BY <1>1
  <2>3. ObjectGet(m, 1, "method") = 6 + 1 BY <1>1, <2>1, <2>2, Lookup
  <2>4. m[7].type = "string" /\ m[7].value = method BY <1>2 DEF Text, Token
  <2> QED BY <1>1, <2>3, <2>4, MethodsAreNone DEF Method, StringAt, JsonString, NoIndex
<1>5. IdIndex(m) = 4 + 1
  <2>1. m[2] # Text(1, "id") /\ m[3] # Text(1, "id") /\ m[4] = Text(1, "id") BY <1>2 DEF Text, Field, Token
  <2>2. 4 \in 1 + 1 .. Len(m) - 1 /\ \A k \in 1 + 1 .. 4 - 1 : k = 2 \/ k = 3 BY <1>1
  <2> QED BY <1>1, <2>1, <2>2, Lookup DEF IdIndex
<1>6. Params(m) = 8 + 1
  <2>1. /\ m[2] # Text(1, "params") /\ m[3] # Text(1, "params") /\ m[4] # Text(1, "params")
        /\ m[5] # Text(1, "params") /\ m[6] # Text(1, "params") /\ m[7] # Text(1, "params")
        /\ m[8] = Text(1, "params")
    BY <1>2, <1>3, MethodsAreNone DEF Text, Field, Token
  <2>2. /\ 8 \in 1 + 1 .. Len(m) - 1
        /\ \A k \in 1 + 1 .. 8 - 1 : k = 2 \/ k = 3 \/ k = 4 \/ k = 5 \/ k = 6 \/ k = 7
    BY <1>1
  <2> QED BY <1>1, <2>1, <2>2, Lookup DEF Params
<1> QED BY <1>1, <1>2, <1>4, <1>5, <1>6

\* A string as json_token_to_string hands it over.
Read(v) == IF v \in {Empty, Garbled} THEN NoString ELSE v

\* Params, a textDocument right behind them and its uri first of all.
HasDocument(m, at, uri) ==
  /\ m[at + 1] = Field(at, "textDocument") /\ m[at + 2] = Token(at, "object", Empty)
  /\ m[at + 3] = Field(at + 2, "uri") /\ m[at + 4] = Text(at + 2, uri)

LEMMA DocumentReads ==
  ASSUME NEW m \in Seq(LspTokens), NEW at \in Nat \ {0}, Params(m) = at, at + 4 <= Len(m),
         NEW uri, HasDocument(m, at, uri)
  PROVE  /\ TextDocument(m) = at + 2 /\ UriIndex(m) = at + 4
         /\ StringAt(m, UriIndex(m)) = Read(uri)
<1>1. Len(m) \in Nat OBVIOUS
<1>2. TextDocument(m) = at + 2
  <2>1. at \in 1..Len(m) /\ at + 1 \in at + 1 .. Len(m) - 1 /\ (at + 1) + 1 = at + 2 BY <1>1
  <2>2. m[at + 1] = Text(at, "textDocument") BY DEF HasDocument, Field
  <2>3. ObjectGet(m, at, "textDocument") = (at + 1) + 1 BY <2>1, <2>2, Lookup
  <2> QED BY <2>1, <2>3 DEF TextDocument, Member, NoIndex
<1>3. UriIndex(m) = at + 4
  <2>1. /\ at + 2 \in 1..Len(m) /\ at + 3 \in (at + 2) + 1 .. Len(m) - 1 /\ (at + 3) + 1 = at + 4
        /\ \A k \in (at + 2) + 1 .. (at + 3) - 1 : FALSE
    BY <1>1
  <2>2. m[at + 3] = Text(at + 2, "uri") BY DEF HasDocument, Field
  <2>3. ObjectGet(m, at + 2, "uri") = (at + 3) + 1 BY <2>1, <2>2, Lookup
  <2> QED BY <1>2, <2>1, <2>3 DEF UriIndex, Member, NoIndex
<1>4. m[at + 4].type = "string" /\ m[at + 4].value = uri BY DEF HasDocument, Text, Token
<1>5. at + 4 # NoIndex BY DEF NoIndex
<1> QED BY <1>2, <1>3, <1>4, <1>5 DEF StringAt, JsonString, Read

\* What WithDocument puts behind an envelope.
LEMMA DocumentCells ==
  ASSUME NEW e \in Seq(LspTokens), Len(e) \in Nat, NEW strings \in Seq(Values),
         NEW m, m = e \o <<Field(Len(e), "textDocument"), Token(Len(e), "object", Empty)>>
                      \o [i \in DOMAIN strings |-> Text(Len(e) + 2, strings[i])]
  PROVE  /\ m \in Seq(LspTokens) /\ Len(m) = Len(e) + 2 + Len(strings)
         /\ \A i \in 1..Len(e) : m[i] = e[i]
         /\ m[Len(e) + 1] = Field(Len(e), "textDocument")
         /\ m[Len(e) + 2] = Token(Len(e), "object", Empty)
         /\ \A i \in 1..Len(strings) : m[Len(e) + 2 + i] = Text(Len(e) + 2, strings[i])
<1> DEFINE document == <<Field(Len(e), "textDocument"), Token(Len(e), "object", Empty)>>
           members == [i \in DOMAIN strings |-> Text(Len(e) + 2, strings[i])]
           head == e \o document
<1>1. document \in Seq(LspTokens)
  <2>1. "textDocument" \in Values /\ Empty \in Values BY ValuesHold DEF Keys
  <2>2. Field(Len(e), "textDocument") \in LspTokens /\ Token(Len(e), "object", Empty) \in LspTokens
    BY <2>1, TokensTyped DEF Types
  <2> QED BY <2>2
<1>2. members \in Seq(LspTokens)
  <2>1. DOMAIN strings = 1..Len(strings) /\ Len(strings) \in Nat OBVIOUS
  <2>2. \A i \in 1..Len(strings) : strings[i] \in Values OBVIOUS
  <2>3. \A i \in 1..Len(strings) : Text(Len(e) + 2, strings[i]) \in LspTokens BY <2>2, TokensTyped
  <2> QED BY <2>1, <2>3
<1>3. Len(members) = Len(strings) /\ \A i \in 1..Len(strings) : members[i] = Text(Len(e) + 2, strings[i])
  <2>1. DOMAIN strings = 1..Len(strings) /\ Len(strings) \in Nat OBVIOUS
  <2> QED BY <2>1
<1>4. Len(document) = 2 /\ document[1] = Field(Len(e), "textDocument")
      /\ document[2] = Token(Len(e), "object", Empty)
  OBVIOUS
<1>5. /\ head \in Seq(LspTokens) /\ Len(head) = Len(e) + Len(document)
      /\ \A i \in 1..Len(e) : head[i] = e[i]
      /\ \A i \in 1..Len(document) : head[Len(e) + i] = document[i]
  <2> HIDE DEF document
  <2> QED BY <1>1
<1>6. /\ m \in Seq(LspTokens) /\ Len(m) = Len(head) + Len(members)
      /\ \A i \in 1..Len(head) : m[i] = head[i]
      /\ \A i \in 1..Len(members) : m[Len(head) + i] = members[i]
  <2>1. m = head \o members OBVIOUS
  <2>2. head \in Seq(LspTokens) BY <1>5
  <2>3. /\ head \o members \in Seq(LspTokens) /\ Len(head \o members) = Len(head) + Len(members)
        /\ \A i \in 1..Len(head) : (head \o members)[i] = head[i]
        /\ \A i \in 1..Len(members) : (head \o members)[Len(head) + i] = members[i]
    <3> HIDE DEF head, members
    <3> QED BY <1>2, <2>2
  <2> HIDE DEF head, members
  <2> QED BY <2>1, <2>3, Zenon
<1>7. Len(head) = Len(e) + 2 /\ head[Len(e) + 1] = document[1] /\ head[Len(e) + 2] = document[2]
  <2> HIDE DEF head, document
  <2> QED BY <1>4, <1>5
<1>8. m[Len(e) + 1] = head[Len(e) + 1] /\ m[Len(e) + 2] = head[Len(e) + 2]
  <2> HIDE DEF head, members
  <2> QED BY <1>6, <1>7
<1>9. \A i \in 1..Len(e) : m[i] = e[i]
  <2> HIDE DEF head, members, document
  <2> QED BY <1>5, <1>6, <1>7
<1>10. Len(m) = Len(e) + 2 + Len(strings) BY <1>3, <1>6, <1>7
<1>11. \A i \in 1..Len(strings) : m[Len(e) + 2 + i] = Text(Len(e) + 2, strings[i])
  <2> HIDE DEF head, members
  <2> QED BY <1>3, <1>6, <1>7
<1> HIDE DEF head, members, document
<1> QED BY <1>4, <1>6, <1>7, <1>8, <1>9, <1>10, <1>11

LEMMA NotifiesDocument ==
  ASSUME NEW method \in Methods, NEW strings \in Seq(Values), Len(strings) >= 2, strings[1] = "uri"
  PROVE  LET m == WithDocument(0, method, strings) IN
           /\ Notifies(m, method) /\ Len(m) = 9 + Len(strings) /\ HasDocument(m, 7, strings[2])
           /\ \A i \in 1..Len(strings) : m[9 + i] = Text(9, strings[i])
<1> DEFINE e == Envelope(0, method)
           m == WithDocument(0, method, strings)
<1>1. Notifies(e, method) /\ Len(e) = 7 BY Envelopes
<1>2. e \in Seq(LspTokens) BY <1>1 DEF Notifies
<1>3. m = e \o <<Field(Len(e), "textDocument"), Token(Len(e), "object", Empty)>>
            \o [i \in DOMAIN strings |-> Text(Len(e) + 2, strings[i])]
  BY DEF WithDocument
<1>4. /\ m \in Seq(LspTokens) /\ Len(m) = Len(e) + 2 + Len(strings)
      /\ \A i \in 1..Len(e) : m[i] = e[i]
      /\ m[Len(e) + 1] = Field(Len(e), "textDocument") /\ m[Len(e) + 2] = Token(Len(e), "object", Empty)
      /\ \A i \in 1..Len(strings) : m[Len(e) + 2 + i] = Text(Len(e) + 2, strings[i])
  <2> HIDE DEF e, m
  <2>1. Len(e) \in Nat BY <1>1
  <2> QED BY <1>2, <1>3, <2>1, DocumentCells
<1> HIDE DEF e, m
<1>5. Len(m) = 9 + Len(strings) /\ Len(strings) \in Nat BY <1>1, <1>4
<1>6. \A i \in 1..Len(strings) : m[9 + i] = Text(9, strings[i]) BY <1>1, <1>4
<1>7. m[8] = Field(7, "textDocument") /\ m[9] = Token(7, "object", Empty) BY <1>1, <1>4
<1>8. m[9 + 1] = Text(9, strings[1]) /\ m[9 + 2] = Text(9, strings[2]) BY <1>5, <1>6
<1>9. HasDocument(m, 7, strings[2]) BY <1>7, <1>8 DEF HasDocument, Field
<1>10. Notifies(m, method)
  <2>1. /\ m[2] = e[2] /\ m[3] = e[3] /\ m[4] = e[4] /\ m[5] = e[5] /\ m[6] = e[6] /\ m[7] = e[7]
    BY <1>1, <1>4
  <2>2. ASSUME NEW i \in 8..Len(m) PROVE m[i].parent # 1
    <3>1. i = 8 \/ i = 9 \/ (i - 9 \in 1..Len(strings) /\ i = 9 + (i - 9)) BY <1>5
    <3>2. m[8].parent = 7 /\ m[9].parent = 7 BY <1>7 DEF Field, Text, Token
    <3>3. \A j \in 1..Len(strings) : m[9 + j].parent = 9
      <4>1. \A v : Text(9, v).parent = 9 BY DEF Text, Token
      <4> QED BY <4>1, <1>6
    <3> QED BY <3>1, <3>2, <3>3
  <2>3. m \in Seq(LspTokens) BY <1>4
  <2>4. Len(m) >= 7 BY <1>5
  <2> QED BY <1>1, <2>1, <2>2, <2>3, <2>4 DEF Notifies
<1> QED BY <1>5, <1>6, <1>9, <1>10 DEF m

LEMMA RequestsDocument ==
  ASSUME NEW n \in 1..MaxSends, NEW method \in Methods,
         NEW strings \in Seq(Values), Len(strings) >= 2, strings[1] = "uri"
  PROVE  LET m == WithDocument(n, method, strings) IN
           Requests(m, n, method) /\ Len(m) = 11 + Len(strings) /\ HasDocument(m, 9, strings[2])
<1> DEFINE e == Envelope(n, method)
           m == WithDocument(n, method, strings)
<1>1. Requests(e, n, method) /\ Len(e) = 9 BY Envelopes
<1>2. e \in Seq(LspTokens) BY <1>1 DEF Requests
<1>3. m = e \o <<Field(Len(e), "textDocument"), Token(Len(e), "object", Empty)>>
            \o [i \in DOMAIN strings |-> Text(Len(e) + 2, strings[i])]
  BY DEF WithDocument
<1>4. /\ m \in Seq(LspTokens) /\ Len(m) = Len(e) + 2 + Len(strings)
      /\ \A i \in 1..Len(e) : m[i] = e[i]
      /\ m[Len(e) + 1] = Field(Len(e), "textDocument") /\ m[Len(e) + 2] = Token(Len(e), "object", Empty)
      /\ \A i \in 1..Len(strings) : m[Len(e) + 2 + i] = Text(Len(e) + 2, strings[i])
  <2> HIDE DEF e, m
  <2>1. Len(e) \in Nat BY <1>1
  <2> QED BY <1>2, <1>3, <2>1, DocumentCells
<1> HIDE DEF e, m
<1>5. Len(m) = 11 + Len(strings) /\ Len(strings) \in Nat BY <1>1, <1>4
<1>6. \A i \in 1..Len(strings) : m[11 + i] = Text(11, strings[i]) BY <1>1, <1>4
<1>7. m[10] = Field(9, "textDocument") /\ m[11] = Token(9, "object", Empty) BY <1>1, <1>4
<1>8. m[11 + 1] = Text(11, strings[1]) /\ m[11 + 2] = Text(11, strings[2]) BY <1>5, <1>6
<1>9. HasDocument(m, 9, strings[2]) BY <1>7, <1>8 DEF HasDocument, Field
<1>10. Requests(m, n, method)
  <2>1. /\ m[2] = e[2] /\ m[3] = e[3] /\ m[4] = e[4] /\ m[5] = e[5] /\ m[6] = e[6] /\ m[7] = e[7]
        /\ m[8] = e[8] /\ m[9] = e[9]
    BY <1>1, <1>4
  <2>2. m \in Seq(LspTokens) BY <1>4
  <2>3. Len(m) >= 9 BY <1>5
  <2> QED BY <1>1, <2>1, <2>2, <2>3 DEF Requests
<1> QED BY <1>5, <1>9, <1>10 DEF m

LEMMA TextReads ==
  ASSUME NEW S, NEW m \in Seq(S), NEW i \in 1..Len(m), NEW p, NEW v, m[i] = Text(p, v)
  PROVE  StringAt(m, i) = Read(v)
<1>1. m[i].type = "string" /\ m[i].value = v BY DEF Text, Token
<1>2. i # NoIndex BY DEF NoIndex
<1> QED BY <1>1, <1>2 DEF StringAt, JsonString, Read

LEMMA OpenReads ==
  ASSUME NEW uri \in Uris, NEW text \in Texts
  PROVE  LET m == OpenMessage(uri, text)
             at == Member(m, TextDocument(m), "text")
         IN  /\ m # NotJson /\ Method(m) = "textDocument/didOpen"
             /\ UriIndex(m) # NoIndex /\ StringAt(m, UriIndex(m)) = uri
             /\ at # NoIndex /\ StringAt(m, at) = Read(text)
<1> DEFINE m == OpenMessage(uri, text)
           method == "textDocument/didOpen"
           strings == <<"uri", uri, "languageId", "lumi", "text", text>>
<1>1. method \in Methods BY DEF Methods, Handled
<1>2. strings \in Seq(Values) /\ Len(strings) = 6
  <2>1. /\ "uri" \in Values /\ uri \in Values /\ "languageId" \in Values /\ "lumi" \in Values
        /\ "text" \in Values /\ text \in Values
    BY ValuesHold DEF Keys
  <2> QED BY <2>1
<1>3. m = WithDocument(0, method, strings) BY DEF OpenMessage
<1>4. /\ Notifies(m, method) /\ Len(m) = 9 + Len(strings) /\ HasDocument(m, 7, strings[2])
      /\ \A i \in 1..Len(strings) : m[9 + i] = Text(9, strings[i])
  <2>1. Len(strings) >= 2 /\ strings[1] = "uri" BY <1>2
  <2> HIDE DEF strings, m, method
  <2> QED BY <1>1, <1>2, <1>3, <2>1, NotifiesDocument
<1>5. Len(m) = 15 BY <1>2, <1>4
<1>6. /\ m[9 + 1] = Text(9, strings[1]) /\ m[9 + 2] = Text(9, strings[2]) /\ m[9 + 3] = Text(9, strings[3])
      /\ m[9 + 4] = Text(9, strings[4]) /\ m[9 + 5] = Text(9, strings[5]) /\ m[9 + 6] = Text(9, strings[6])
  <2> HIDE DEF strings, m
  <2> QED BY <1>2, <1>4
<1>7. /\ m[10] = Text(9, "uri") /\ m[11] = Text(9, uri) /\ m[12] = Text(9, "languageId")
      /\ m[13] = Text(9, "lumi") /\ m[14] = Text(9, "text") /\ m[15] = Text(9, text)
  <2> HIDE DEF m
  <2> QED BY <1>6
<1>8. HasDocument(m, 7, uri) BY <1>4
<1> HIDE DEF strings, m
<1>9. m \in Seq(LspTokens) BY <1>4 DEF Notifies
<1>10. m # NotJson /\ Method(m) = method /\ Params(m) = 7
  <2> HIDE DEF method
  <2> QED BY <1>1, <1>4, NotifiesReads
<1>11. uri \notin {Empty, Garbled, NoString, "text"} BY LspAssumption
<1>12. TextDocument(m) = 7 + 2 /\ UriIndex(m) = 7 + 4 /\ StringAt(m, UriIndex(m)) = uri
  <2>1. 7 \in Nat \ {0} /\ 7 + 4 <= Len(m) BY <1>5
  <2>2. TextDocument(m) = 7 + 2 /\ UriIndex(m) = 7 + 4 /\ StringAt(m, UriIndex(m)) = Read(uri)
    BY <2>1, <1>8, <1>9, <1>10, DocumentReads
  <2> QED BY <2>2, <1>11 DEF Read
<1>13. ObjectGet(m, 9, "text") = 14 + 1
  <2>1. /\ m[10] # Text(9, "text") /\ m[11] # Text(9, "text") /\ m[12] # Text(9, "text")
        /\ m[13] # Text(9, "text")
    BY <1>7, <1>11 DEF Text, Token
  <2>2. /\ 9 \in 1..Len(m) /\ 14 \in 9 + 1 .. Len(m) - 1
        /\ \A k \in 9 + 1 .. 14 - 1 : k = 10 \/ k = 11 \/ k = 12 \/ k = 13
    BY <1>5
  <2> QED BY <1>7, <1>9, <2>1, <2>2, Lookup
<1>14. Member(m, TextDocument(m), "text") = 15 BY <1>12, <1>13 DEF Member, NoIndex
<1>15. StringAt(m, 15) = Read(text)
  <2>1. 15 \in 1..Len(m) BY <1>5
  <2> QED BY <1>7, <1>9, <2>1, TextReads
<1>16. UriIndex(m) # NoIndex /\ 15 # NoIndex BY <1>12 DEF NoIndex
<1> QED BY <1>10, <1>12, <1>14, <1>15, <1>16 DEF m

LEMMA CloseReads ==
  ASSUME NEW uri \in Uris
  PROVE  LET m == CloseMessage(uri)
         IN  /\ m # NotJson /\ Method(m) = "textDocument/didClose"
             /\ UriIndex(m) # NoIndex /\ StringAt(m, UriIndex(m)) = uri
<1> DEFINE m == CloseMessage(uri)
           method == "textDocument/didClose"
           strings == <<"uri", uri>>
<1>1. method \in Methods BY DEF Methods, Handled
<1>2. strings \in Seq(Values) /\ Len(strings) = 2
  <2>1. "uri" \in Values /\ uri \in Values BY ValuesHold DEF Keys
  <2> QED BY <2>1
<1>3. m = WithDocument(0, method, strings) BY DEF CloseMessage
<1>4. Notifies(m, method) /\ Len(m) = 9 + Len(strings) /\ HasDocument(m, 7, strings[2])
  <2>1. Len(strings) >= 2 /\ strings[1] = "uri" BY <1>2
  <2> HIDE DEF strings, m, method
  <2> QED BY <1>1, <1>2, <1>3, <2>1, NotifiesDocument
<1>5. Len(m) = 11 BY <1>2, <1>4
<1>6. HasDocument(m, 7, uri) BY <1>4
<1> HIDE DEF strings, m
<1>7. m \in Seq(LspTokens) BY <1>4 DEF Notifies
<1>8. m # NotJson /\ Method(m) = method /\ Params(m) = 7
  <2> HIDE DEF method
  <2> QED BY <1>1, <1>4, NotifiesReads
<1>9. uri \notin {Empty, Garbled, NoString, "text"} BY LspAssumption
<1>10. UriIndex(m) = 7 + 4 /\ StringAt(m, UriIndex(m)) = uri
  <2>1. 7 \in Nat \ {0} /\ 7 + 4 <= Len(m) BY <1>5
  <2>2. UriIndex(m) = 7 + 4 /\ StringAt(m, UriIndex(m)) = Read(uri)
    BY <2>1, <1>6, <1>7, <1>8, DocumentReads
  <2> QED BY <2>2, <1>9 DEF Read
<1>11. UriIndex(m) # NoIndex BY <1>10 DEF NoIndex
<1> QED BY <1>8, <1>10, <1>11 DEF m

LEMMA ChangeReads ==
  ASSUME NEW uri \in Uris, NEW text \in Texts
  PROVE  LET m == ChangeMessage(uri, text)
             at == Member(m, ArrayFirst(m, Member(m, Params(m), "contentChanges")), "text")
         IN  /\ m # NotJson /\ Method(m) = "textDocument/didChange"
             /\ UriIndex(m) # NoIndex /\ StringAt(m, UriIndex(m)) = uri
             /\ at # NoIndex /\ StringAt(m, at) = Read(text)
<1> DEFINE m == ChangeMessage(uri, text)
           method == "textDocument/didChange"
           strings == <<"uri", uri>>
           head == WithDocument(0, method, strings)
           changes == <<Field(7, "contentChanges"), Token(7, "array", Empty), Token(13, "object", Empty),
                        Field(14, "text"), Text(14, text)>>
<1>1. method \in Methods BY DEF Methods, Handled
<1>2. strings \in Seq(Values) /\ Len(strings) = 2 /\ strings[1] = "uri"
  <2>1. "uri" \in Values /\ uri \in Values BY ValuesHold DEF Keys
  <2> QED BY <2>1
<1>3. Notifies(head, method) /\ Len(head) = 9 + Len(strings) /\ HasDocument(head, 7, strings[2])
  <2>1. Len(strings) >= 2 BY <1>2
  <2> HIDE DEF strings, method
  <2> QED BY <1>1, <1>2, <2>1, NotifiesDocument
<1>4. Len(head) = 11 /\ head \in Seq(LspTokens) /\ HasDocument(head, 7, uri)
  <2>1. strings[2] = uri OBVIOUS
  <2> HIDE DEF head, strings
  <2> QED BY <1>2, <1>3, <2>1 DEF Notifies
<1>5. changes \in Seq(LspTokens)
  <2>1. "contentChanges" \in Values /\ "text" \in Values /\ text \in Values /\ Empty \in Values
    BY ValuesHold DEF Keys
  <2>2. /\ Field(7, "contentChanges") \in LspTokens /\ Token(7, "array", Empty) \in LspTokens
        /\ Token(13, "object", Empty) \in LspTokens /\ Field(14, "text") \in LspTokens
        /\ Text(14, text) \in LspTokens
    BY <2>1, TokensTyped DEF Types
  <2> QED BY <2>2
<1>6. m = head \o changes
  <2>1. Len(Envelope(0, method)) = 7 BY <1>1, Envelopes
  <2>2. m = head \o <<Field(7, "contentChanges"), Token(7, "array", Empty), Token(Len(head) + 2, "object", Empty),
                      Field(Len(head) + 2 + 1, "text"), Text(Len(head) + 2 + 1, text)>>
    <3> HIDE DEF head
    <3> QED BY <2>1 DEF ChangeMessage, head
  <2> HIDE DEF m, head
  <2>3. Len(head) + 2 = 13 /\ Len(head) + 2 + 1 = 14 BY <1>4
  <2> QED BY <2>2, <2>3
<1>7. /\ head \o changes \in Seq(LspTokens) /\ Len(head \o changes) = Len(head) + Len(changes)
      /\ \A i \in 1..Len(head) : (head \o changes)[i] = head[i]
      /\ \A i \in 1..Len(changes) : (head \o changes)[Len(head) + i] = changes[i]
  <2>1. head \in Seq(LspTokens) BY <1>4
  <2> HIDE DEF head, changes
  <2> QED BY <1>5, <2>1
<1>8. Len(changes) = 5 OBVIOUS
<1>9. /\ m \in Seq(LspTokens) /\ Len(m) = 16
      /\ \A i \in 1..11 : m[i] = head[i]
      /\ \A i \in 1..5 : m[11 + i] = changes[i]
  <2> HIDE DEF head, changes, m
  <2>1. /\ m \in Seq(LspTokens) /\ Len(m) = Len(head) + Len(changes)
        /\ \A i \in 1..Len(head) : m[i] = head[i]
        /\ \A i \in 1..Len(changes) : m[Len(head) + i] = changes[i]
    BY <1>6, <1>7, Zenon
  <2> QED BY <1>4, <1>8, <2>1
<1>10. /\ m[11 + 1] = changes[1] /\ m[11 + 2] = changes[2] /\ m[11 + 3] = changes[3]
       /\ m[11 + 4] = changes[4] /\ m[11 + 5] = changes[5]
  <2> HIDE DEF m, changes
  <2> QED BY <1>9
<1>11. /\ m[12] = Field(7, "contentChanges") /\ m[13] = Token(7, "array", Empty)
       /\ m[14] = Token(13, "object", Empty) /\ m[15] = Field(14, "text") /\ m[16] = Text(14, text)
  <2> HIDE DEF m
  <2> QED BY <1>10
<1> HIDE DEF m, head, changes, strings
<1>12. HasDocument(m, 7, uri)
  <2>1. m[8] = head[8] /\ m[9] = head[9] /\ m[10] = head[10] /\ m[11] = head[11] BY <1>9
  <2> QED BY <1>4, <2>1 DEF HasDocument
<1>13. Notifies(m, method)
  <2>1. /\ m[2] = head[2] /\ m[3] = head[3] /\ m[4] = head[4] /\ m[5] = head[5] /\ m[6] = head[6]
        /\ m[7] = head[7]
    BY <1>9
  <2>2. ASSUME NEW i \in 8..Len(m) PROVE m[i].parent # 1
    <3>1. i \in 8..11 \/ i = 12 \/ i = 13 \/ i = 14 \/ i = 15 \/ i = 16 BY <1>9
    <3>2. \A j \in 8..11 : m[j] = head[j] /\ head[j].parent # 1
      <4>1. \A j \in 8..Len(head) : head[j].parent # 1 BY <1>3 DEF Notifies
      <4>2. \A j \in 1..11 : m[j] = head[j] BY <1>9
      <4> QED BY <1>4, <4>1, <4>2
    <3>3. m[12].parent = 7 /\ m[13].parent = 7 /\ m[14].parent = 13 /\ m[15].parent = 14 /\ m[16].parent = 14
      BY <1>11 DEF Field, Text, Token
    <3> QED BY <3>1, <3>2, <3>3
  <2> QED BY <1>3, <1>9, <2>1, <2>2 DEF Notifies
<1>14. m # NotJson /\ Method(m) = method /\ Params(m) = 7
  <2> HIDE DEF method
  <2> QED BY <1>1, <1>13, NotifiesReads
<1>15. UriIndex(m) = 7 + 4 /\ StringAt(m, UriIndex(m)) = uri
  <2>1. uri \notin {Empty, Garbled, NoString, "text"} BY LspAssumption
  <2>2. 7 \in Nat \ {0} /\ 7 + 4 <= Len(m) /\ m \in Seq(LspTokens) BY <1>9
  <2>3. UriIndex(m) = 7 + 4 /\ StringAt(m, UriIndex(m)) = Read(uri)
    BY <2>2, <1>12, <1>14, DocumentReads
  <2> QED BY <2>1, <2>3 DEF Read
<1>16. Member(m, Params(m), "contentChanges") = 13
  <2>1. /\ m[8] # Text(7, "contentChanges") /\ m[9] # Text(7, "contentChanges")
        /\ m[10] # Text(7, "contentChanges") /\ m[11] # Text(7, "contentChanges")
    BY <1>12 DEF HasDocument, Field, Text, Token
  <2>2. /\ 7 \in 1..Len(m) /\ 12 \in 7 + 1 .. Len(m) - 1 /\ m \in Seq(LspTokens)
        /\ \A k \in 7 + 1 .. 12 - 1 : k = 8 \/ k = 9 \/ k = 10 \/ k = 11
    BY <1>9
  <2>3. m[12] = Text(7, "contentChanges") BY <1>11 DEF Field
  <2>4. ObjectGet(m, 7, "contentChanges") = 12 + 1 BY <2>1, <2>2, <2>3, Lookup
  <2> QED BY <1>14, <2>4 DEF Member, NoIndex
<1>17. ArrayFirst(m, 13) = 13 + 1
  <2>1. 13 \in 1..Len(m) /\ 13 + 1 <= Len(m) /\ 13 # NoIndex /\ m \in Seq(LspTokens) BY <1>9 DEF NoIndex
  <2>2. m[13 + 1].parent = 13 BY <1>11 DEF Token
  <2> QED BY <2>1, <2>2, FirstElement
<1>18. Member(m, 14, "text") = 16
  <2>1. /\ 14 \in 1..Len(m) /\ 15 \in 14 + 1 .. Len(m) - 1 /\ m \in Seq(LspTokens)
        /\ \A k \in 14 + 1 .. 15 - 1 : FALSE
    BY <1>9
  <2>2. m[15] = Text(14, "text") BY <1>11 DEF Field
  <2>3. ObjectGet(m, 14, "text") = 15 + 1 BY <2>1, <2>2, Lookup
  <2> QED BY <2>3 DEF Member, NoIndex
<1>19. StringAt(m, 16) = Read(text)
  <2>1. 16 \in 1..Len(m) /\ m \in Seq(LspTokens) BY <1>9
  <2> QED BY <1>11, <2>1, TextReads
<1>20. UriIndex(m) # NoIndex /\ 16 # NoIndex BY <1>15 DEF NoIndex
<1>21. Member(m, ArrayFirst(m, Member(m, Params(m), "contentChanges")), "text") = 16
  BY <1>16, <1>17, <1>18
<1> QED BY <1>14, <1>15, <1>19, <1>20, <1>21 DEF m

Position(m) == Member(m, Params(m), "position")
Line(m) == Member(m, Position(m), "line")
Character(m) == Member(m, Position(m), "character")

\* What the handlers read from request n about a document.
AsksAbout(m, n, method, uri, lineType) ==
  /\ m # NotJson /\ Method(m) = method /\ Params(m) # NoIndex
  /\ Asks(m) /\ m[IdIndex(m)] = Token(1, IdType, Ids[n])
  /\ UriIndex(m) # NoIndex /\ StringAt(m, UriIndex(m)) = Read(uri)
  /\ Line(m) # NoIndex /\ Character(m) # NoIndex
  /\ IsLong(m[Line(m)]) <=> lineType = "primitive"
  /\ IsLong(m[Character(m)])

LEMMA AskReads ==
  ASSUME NEW n \in 1..MaxSends, NEW method \in Documented, NEW uri \in Uris \cup {Garbled},
         NEW lineType \in {"primitive", "string"}
  PROVE  AsksAbout(AskMessage(n, method, uri, lineType), n, method, uri, lineType)
<1> DEFINE m == AskMessage(n, method, uri, lineType)
           strings == <<"uri", uri>>
           head == WithDocument(n, method, strings)
           rest == <<Field(9, "position"), Token(9, "object", Empty), Field(15, "line"),
                     Token(15, lineType, "1"), Field(15, "character"), Number(15, "0")>>
<1>1. method \in Methods BY DEF Methods, Handled
<1>2. strings \in Seq(Values) /\ Len(strings) = 2 /\ strings[1] = "uri"
  <2>1. "uri" \in Values /\ uri \in Values BY ValuesHold DEF Keys
  <2> QED BY <2>1
<1>3. Requests(head, n, method) /\ Len(head) = 11 + Len(strings) /\ HasDocument(head, 9, strings[2])
  <2>1. Len(strings) >= 2 BY <1>2
  <2> HIDE DEF strings
  <2> QED BY <1>1, <1>2, <2>1, RequestsDocument
<1>4. Len(head) = 13 /\ head \in Seq(LspTokens) /\ HasDocument(head, 9, uri)
  <2>1. strings[2] = uri OBVIOUS
  <2> HIDE DEF head, strings
  <2> QED BY <1>2, <1>3, <2>1 DEF Requests
<1>5. rest \in Seq(LspTokens)
  <2>1. /\ "position" \in Values /\ "line" \in Values /\ "character" \in Values /\ "1" \in Values
        /\ "0" \in Values /\ Empty \in Values
    BY ValuesHold DEF Keys
  <2>2. /\ Field(9, "position") \in LspTokens /\ Token(9, "object", Empty) \in LspTokens
        /\ Field(15, "line") \in LspTokens /\ Token(15, lineType, "1") \in LspTokens
        /\ Field(15, "character") \in LspTokens /\ Number(15, "0") \in LspTokens
    BY <2>1, TokensTyped DEF Types
  <2> QED BY <2>2
<1>6. m = head \o rest
  <2>1. Len(Envelope(n, method)) = 9 BY <1>1, Envelopes
  <2>2. m = head \o <<Field(9, "position"), Token(9, "object", Empty), Field(Len(head) + 2, "line"),
                       Token(Len(head) + 2, lineType, "1"), Field(Len(head) + 2, "character"), Number(Len(head) + 2, "0")>>
    <3> HIDE DEF head
    <3> QED BY <2>1 DEF AskMessage, head
  <2> HIDE DEF m, head
  <2>3. Len(head) + 2 = 15 BY <1>4
  <2> QED BY <2>2, <2>3
<1>7. /\ head \o rest \in Seq(LspTokens) /\ Len(head \o rest) = Len(head) + Len(rest)
      /\ \A i \in 1..Len(head) : (head \o rest)[i] = head[i]
      /\ \A i \in 1..Len(rest) : (head \o rest)[Len(head) + i] = rest[i]
  <2>1. head \in Seq(LspTokens) BY <1>4
  <2> HIDE DEF head, rest
  <2> QED BY <1>5, <2>1
<1>8. Len(rest) = 6 OBVIOUS
<1>9. /\ m \in Seq(LspTokens) /\ Len(m) = 19
      /\ \A i \in 1..13 : m[i] = head[i]
      /\ \A i \in 1..6 : m[13 + i] = rest[i]
  <2> HIDE DEF head, rest, m
  <2>1. /\ m \in Seq(LspTokens) /\ Len(m) = Len(head) + Len(rest)
        /\ \A i \in 1..Len(head) : m[i] = head[i]
        /\ \A i \in 1..Len(rest) : m[Len(head) + i] = rest[i]
    BY <1>6, <1>7, Zenon
  <2> QED BY <1>4, <1>8, <2>1
<1>10. /\ m[13 + 1] = rest[1] /\ m[13 + 2] = rest[2] /\ m[13 + 3] = rest[3]
       /\ m[13 + 4] = rest[4] /\ m[13 + 5] = rest[5] /\ m[13 + 6] = rest[6]
  <2> HIDE DEF m, rest
  <2> QED BY <1>9
<1>11. /\ m[14] = Field(9, "position") /\ m[15] = Token(9, "object", Empty) /\ m[16] = Field(15, "line")
       /\ m[17] = Token(15, lineType, "1") /\ m[18] = Field(15, "character") /\ m[19] = Number(15, "0")
  <2> HIDE DEF m
  <2> QED BY <1>10
<1> HIDE DEF m, head, rest, strings
<1>12. HasDocument(m, 9, uri)
  <2>1. m[10] = head[10] /\ m[11] = head[11] /\ m[12] = head[12] /\ m[13] = head[13] BY <1>9
  <2> QED BY <1>4, <2>1 DEF HasDocument
<1>13. Requests(m, n, method)
  <2>1. /\ m[2] = head[2] /\ m[3] = head[3] /\ m[4] = head[4] /\ m[5] = head[5] /\ m[6] = head[6]
        /\ m[7] = head[7] /\ m[8] = head[8] /\ m[9] = head[9]
    BY <1>9
  <2> QED BY <1>3, <1>9, <2>1 DEF Requests
<1>14. /\ m # NotJson /\ Method(m) = method /\ Params(m) = 9
       /\ IdIndex(m) = 5 /\ m[5] = Token(1, IdType, Ids[n])
  BY <1>1, <1>13, RequestsReads
<1>15. UriIndex(m) = 9 + 4 /\ StringAt(m, UriIndex(m)) = Read(uri)
  <2>1. 9 \in Nat \ {0} /\ 9 + 4 <= Len(m) /\ m \in Seq(LspTokens) BY <1>9
  <2> QED BY <2>1, <1>12, <1>14, DocumentReads
<1>16. Member(m, Params(m), "position") = 15
  <2>1. /\ m[10] # Text(9, "position") /\ m[11] # Text(9, "position")
        /\ m[12] # Text(9, "position") /\ m[13] # Text(9, "position")
    BY <1>12 DEF HasDocument, Field, Text, Token
  <2>2. /\ 9 \in 1..Len(m) /\ 14 \in 9 + 1 .. Len(m) - 1 /\ m \in Seq(LspTokens)
        /\ \A k \in 9 + 1 .. 14 - 1 : k = 10 \/ k = 11 \/ k = 12 \/ k = 13
    BY <1>9
  <2>3. m[14] = Text(9, "position") BY <1>11 DEF Field
  <2>4. ObjectGet(m, 9, "position") = 14 + 1 BY <2>1, <2>2, <2>3, Lookup
  <2> QED BY <1>14, <2>4 DEF Member, NoIndex
<1>17. Member(m, 15, "line") = 17
  <2>1. /\ 15 \in 1..Len(m) /\ 16 \in 15 + 1 .. Len(m) - 1 /\ m \in Seq(LspTokens)
        /\ \A k \in 15 + 1 .. 16 - 1 : FALSE
    BY <1>9
  <2>2. m[16] = Text(15, "line") BY <1>11 DEF Field
  <2>3. ObjectGet(m, 15, "line") = 16 + 1 BY <2>1, <2>2, Lookup
  <2> QED BY <2>3 DEF Member, NoIndex
<1>18. Member(m, 15, "character") = 19
  <2>1. /\ 15 \in 1..Len(m) /\ 18 \in 15 + 1 .. Len(m) - 1 /\ m \in Seq(LspTokens)
        /\ \A k \in 15 + 1 .. 18 - 1 : k = 16 \/ k = 17
    BY <1>9
  <2>2. /\ m[18] = Text(15, "character") /\ m[16] # Text(15, "character") /\ m[17] # Text(15, "character")
    BY <1>11 DEF Field, Text, Token
  <2>3. ObjectGet(m, 15, "character") = 18 + 1 BY <2>1, <2>2, Lookup
  <2> QED BY <2>3 DEF Member, NoIndex
<1>19. (IsLong(m[17]) <=> lineType = "primitive") /\ IsLong(m[19])
  BY <1>11 DEF IsLong, Token, Number
<1>20. /\ UriIndex(m) # NoIndex /\ Params(m) # NoIndex /\ 17 # NoIndex /\ 19 # NoIndex
       /\ Asks(m) /\ m[IdIndex(m)] = Token(1, IdType, Ids[n])
  BY <1>14, <1>15 DEF NoIndex, Asks
<1>21. Line(m) = 17 /\ Character(m) = 19 BY <1>16, <1>17, <1>18 DEF Line, Character, Position
<1> QED BY <1>14, <1>15, <1>19, <1>20, <1>21 DEF m, AsksAbout

-----------------------------------------------------------------------------
(* The invariant *)

Document == Texts \cup {NoText}
Documents == [Uris -> Document]
Entry == [uri : Uris, text : Texts]
Asking == Documented \cup {"initialize", "workspace/symbol"}

Messages ==
  {NotJson} \cup {Envelope(n, method) : n \in 0..MaxSends, method \in Methods}
    \cup {OpenMessage(uri, text) : uri \in Uris, text \in Texts}
    \cup {ChangeMessage(uri, text) : uri \in Uris, text \in Texts}
    \cup {CloseMessage(uri) : uri \in Uris}
    \cup {AskMessage(n, method, uri, lineType) : n \in 1..MaxSends, method \in Documented,
             uri \in Uris \cup {Garbled}, lineType \in {"primitive", "string"}}

Abouts == Document \cup {"capabilities", "null", "invalid position", "missing position", "missing uri",
                         "invalid uri", "method not found"}
Diagnostics == [kind : {"diagnostics"}, uri : Uris, about : Document]
Replies == [kind : {"answer"}, id : [type : {"primitive"}, value : Values], about : Abouts]
Requested == [number : 1..MaxSends, id : [type : {IdType}, value : Values], expect : Abouts]

\* m takes an editor's documents from v to w ...
Edits(m, v, w) ==
  \/ \E uri \in Uris, text \in Texts :
       m \in {OpenMessage(uri, text), ChangeMessage(uri, text)} /\ w = [v EXCEPT ![uri] = text]
  \/ \E uri \in Uris : m = CloseMessage(uri) /\ w = [v EXCEPT ![uri] = NoText]

\* ... or is request n, made when they were v, and its answer is to be about e.
Requesting(m, n, v, e) ==
  \/ \E method \in Documented, uri \in Uris :
       m = AskMessage(n, method, uri, "primitive") /\ e = v[uri]
  \/ \E uri \in Uris :
       /\ m = AskMessage(n, "textDocument/hover", uri, "string")
       /\ e = IF v[uri] = NoText THEN NoText ELSE "invalid position"
  \/ \E method \in Documented :
       /\ m = AskMessage(n, method, Garbled, "primitive")
       /\ e = IF method = "textDocument/completion" THEN NoText ELSE "invalid uri"
  \/ \E method \in Asking : m = Envelope(n, method) /\ e = WithoutDocument(method)
  \/ m = Envelope(n, "shutdown") /\ e = "null"

Plain == {NotJson, Envelope(0, "initialized"), Envelope(0, "exit")}

\* Message n of the editor, which had the documents v before it and w after it; the
\* requests that wait for an answer are those of asked.
Written(asked, m, n, v, w) ==
  \/ /\ Edits(m, v, w) \/ (m \in Plain /\ w = v)
     /\ \A p \in asked : p.number # n
  \/ /\ w = v
     /\ \E e \in Abouts :
          /\ Requesting(m, n, v, e)
          /\ IdType = "primitive" => \E p \in asked : p.number = n /\ p.expect = e

\* How many messages the server has taken.
Taken == sends - Len(toServer)

\* The editor's documents after each of its messages: the server has those after the
\* messages it has taken, and what is in the pipe leads from there to the editor's.
Linked(view) ==
  /\ view[sends] = buffers
  /\ \A uri \in Uris : StoreGet(uri) = view[Taken][uri]
  /\ \A j \in 1..Len(toServer) :
       Written(pending, toServer[j], Taken + j, view[Taken + j - 1], view[Taken + j])

DocsOK ==
  /\ docs \in Seq(Entry)
  /\ \A i, j \in 1..Len(docs) : docs[i].uri = docs[j].uri => i = j

\* What the editor shows once it has read everything is what the server holds.
Marks(i, uri) == toClient[i].kind = "diagnostics" /\ toClient[i].uri = uri
Displayed ==
  \A uri \in Uris :
    /\ (\A i \in 1..Len(toClient) : ~Marks(i, uri)) => shown[uri] = StoreGet(uri)
    /\ \A i \in 1..Len(toClient) :
         Marks(i, uri) /\ (\A k \in i + 1 .. Len(toClient) : ~Marks(k, uri)) =>
           toClient[i].about = StoreGet(uri)

InStep ==
  exitCode = Serving /\ editor # "gone" =>
    DocsOK /\ Displayed /\ \E view \in [0..MaxSends -> Documents] : Linked(view)

LspTypes ==
  /\ toServer \in Seq(Messages) /\ toClient \in Seq(Diagnostics \cup Replies)
  /\ shutdownRequested \in BOOLEAN /\ exitCode \in {0, 1, Serving}
  /\ editor \in {"running", "closed", "gone"}
  /\ buffers \in Documents /\ shown \in Documents
  /\ pending \subseteq Requested /\ lastWords \subseteq {"shutdown", "exit"}
  /\ sends \in 0..MaxSends /\ Len(toServer) <= sends
  /\ \A p \in pending : p.number <= sends /\ p.id.value = Ids[p.number]

\* A request is answered, once it is taken and not before.
InTurn ==
  exitCode = Serving =>
    \A p \in pending : p.number <= Taken <=> \E k \in 1..Len(toClient) : Answers(k, p)

AnswersInv == (IdType = "primitive" /\ editor # "gone") => InTurn /\ AnswersFit

LspInv == LspTypes /\ InStep /\ AnswersInv

\* The editor's last words are taken, on the way or lost with the editor.
Says(word) == \E j \in 1..Len(toServer) : Method(toServer[j]) = word
LastWordsOK ==
  /\ Says("exit") => "exit" \in lastWords
  /\ Says("shutdown") \/ shutdownRequested => "shutdown" \in lastWords
  /\ exitCode = 0 => lastWords = {"shutdown", "exit"}
  /\ exitCode = Serving /\ editor # "gone" =>
       /\ "exit" \in lastWords => toServer # << >> /\ Method(toServer[Len(toServer)]) = "exit"
       /\ "shutdown" \in lastWords => shutdownRequested \/ Says("shutdown")
       /\ \A j \in 1..Len(toServer) : Method(toServer[j]) = "exit" => j = Len(toServer)
  /\ exitCode = 1 /\ editor # "gone" =>
       lastWords # {"shutdown", "exit"} /\ ("exit" \in lastWords \/ editor # "running")

-----------------------------------------------------------------------------
(* What the server does with each message *)

\* The answer to a request, and none to a notification.
Replying(m, about) == IF Asks(m) THEN Respond(m[IdIndex(m)], about) ELSE Quiet

LEMMA Dispatch ==
  ASSUME Serve, toServer # << >>
  PROVE  LET m == Head(toServer) IN
    /\ exitCode = Serving /\ toServer' = Tail(toServer) /\ UNCHANGED editorVars
    /\ Method(m) = NoString => UNCHANGED <<serverVars, toClient>>
    /\ Method(m) = "initialize" => Replying(m, "capabilities") /\ UNCHANGED <<docs, shutdownRequested>>
    /\ Method(m) = "shutdown" => Replying(m, "null") /\ shutdownRequested' = TRUE /\ UNCHANGED docs
    /\ Method(m) = "exit" =>
         Stop(IF shutdownRequested THEN 0 ELSE 1) /\ UNCHANGED <<docs, shutdownRequested, toClient>>
    /\ Method(m) = "textDocument/didOpen" => DidOpen(m) /\ UNCHANGED shutdownRequested
    /\ Method(m) = "textDocument/didChange" => DidChange(m) /\ UNCHANGED shutdownRequested
    /\ Method(m) = "textDocument/didClose" => DidClose(m) /\ UNCHANGED shutdownRequested
    /\ Method(m) = "textDocument/completion" =>
         (IF Asks(m) THEN Completion(m, m[IdIndex(m)]) ELSE Quiet) /\ UNCHANGED <<docs, shutdownRequested>>
    /\ Method(m) = "textDocument/hover" =>
         (IF Asks(m) THEN Hover(m, m[IdIndex(m)]) ELSE Quiet) /\ UNCHANGED <<docs, shutdownRequested>>
    /\ Method(m) = "textDocument/documentSymbol" =>
         (IF Asks(m) THEN DocumentSymbol(m, m[IdIndex(m)]) ELSE Quiet) /\ UNCHANGED <<docs, shutdownRequested>>
    /\ Method(m) \in {"initialized", "workspace/symbol"} =>
         Replying(m, "method not found") /\ UNCHANGED <<docs, shutdownRequested>>
<1> DEFINE m == Head(toServer)
<1> USE DEF Takes, Tokens, Id, Replying, NoString
<1>1. CASE ServeInitialize
  <2>1. Method(m) = "initialize" BY <1>1 DEF ServeInitialize
  <2> QED BY <1>1, <2>1 DEF ServeInitialize
<1>2. CASE ServeShutdown
  <2>1. Method(m) = "shutdown" BY <1>2 DEF ServeShutdown
  <2> QED BY <1>2, <2>1 DEF ServeShutdown
<1>3. CASE ServeExit
  <2>1. Method(m) = "exit" BY <1>3 DEF ServeExit
  <2> QED BY <1>3, <2>1 DEF ServeExit
<1>4. CASE ServeNotification
  <2>1. CASE Takes("textDocument/didOpen") /\ DidOpen(Tokens)
    <3>1. Method(m) = "textDocument/didOpen" BY <2>1
    <3> QED BY <1>4, <2>1, <3>1 DEF ServeNotification
  <2>2. CASE Takes("textDocument/didChange") /\ DidChange(Tokens)
    <3>1. Method(m) = "textDocument/didChange" BY <2>2
    <3> QED BY <1>4, <2>2, <3>1 DEF ServeNotification
  <2>3. CASE Takes("textDocument/didClose") /\ DidClose(Tokens)
    <3>1. Method(m) = "textDocument/didClose" BY <2>3
    <3> QED BY <1>4, <2>3, <3>1 DEF ServeNotification
  <2> QED BY <1>4, <2>1, <2>2, <2>3 DEF ServeNotification
<1>5. CASE ServeRequest
  <2>1. CASE /\ Takes("textDocument/completion")
             /\ IF Asks(Tokens) THEN Completion(Tokens, Id) ELSE Quiet
    <3>1. Method(m) = "textDocument/completion" BY <2>1
    <3> QED BY <1>5, <2>1, <3>1 DEF ServeRequest
  <2>2. CASE /\ Takes("textDocument/hover")
             /\ IF Asks(Tokens) THEN Hover(Tokens, Id) ELSE Quiet
    <3>1. Method(m) = "textDocument/hover" BY <2>2
    <3> QED BY <1>5, <2>2, <3>1 DEF ServeRequest
  <2>3. CASE /\ Takes("textDocument/documentSymbol")
             /\ IF Asks(Tokens) THEN DocumentSymbol(Tokens, Id) ELSE Quiet
    <3>1. Method(m) = "textDocument/documentSymbol" BY <2>3
    <3> QED BY <1>5, <2>3, <3>1 DEF ServeRequest
  <2> QED BY <1>5, <2>1, <2>2, <2>3 DEF ServeRequest
<1>6. CASE ServeUnknown
  <2>1. Method(m) \notin Handled \cup {NoString} BY <1>6 DEF ServeUnknown
  <2>2. /\ exitCode = Serving /\ toServer' = Tail(toServer) /\ UNCHANGED editorVars
        /\ Replying(m, "method not found") /\ UNCHANGED <<docs, shutdownRequested>>
    BY <1>6 DEF ServeUnknown, RespondError
  <2> QED BY <2>1, <2>2 DEF Handled, Documented
<1>7. CASE PassOver
  <2>1. Method(m) = NoString BY <1>7 DEF PassOver
  <2> QED BY <1>7, <2>1 DEF PassOver
<1>8. CASE EndOfInput BY <1>8 DEF EndOfInput
<1> QED BY <1>1, <1>2, <1>3, <1>4, <1>5, <1>6, <1>7, <1>8 DEF Serve

\* document_store_get for a store with one entry per uri.
GetIn(d, uri) ==
  LET entries == {i \in DOMAIN d : d[i].uri = uri}
  IN  IF entries = {} THEN NoText ELSE d[Min(entries)].text

Distinct(d) == d \in Seq(Entry) /\ \A i, j \in 1..Len(d) : d[i].uri = d[j].uri => i = j

LEMMA StoreGetIn == \A uri : StoreGet(uri) = GetIn(docs, uri)
BY DEF StoreGet, Entries, GetIn

LEMMA GetInOne ==
  ASSUME NEW d, Distinct(d)
  PROVE  /\ \A i \in 1..Len(d) : GetIn(d, d[i].uri) = d[i].text
         /\ \A uri : (\A i \in 1..Len(d) : d[i].uri # uri) => GetIn(d, uri) = NoText
<1>1. DOMAIN d = 1..Len(d) /\ Len(d) \in Nat BY DEF Distinct
<1>2. ASSUME NEW i \in 1..Len(d) PROVE GetIn(d, d[i].uri) = d[i].text
  <2>1. {j \in DOMAIN d : d[j].uri = d[i].uri} = {i} BY <1>1 DEF Distinct
  <2>2. Min({i}) = i BY <1>1 DEF Min
  <2> QED BY <2>1, <2>2 DEF GetIn
<1>3. ASSUME NEW uri, \A i \in 1..Len(d) : d[i].uri # uri PROVE GetIn(d, uri) = NoText
  BY <1>1, <1>3 DEF GetIn
<1> QED BY <1>2, <1>3

LEMMA GetInSome ==
  ASSUME NEW d, Distinct(d), NEW uri
  PROVE  \/ (\A i \in 1..Len(d) : d[i].uri # uri) /\ GetIn(d, uri) = NoText
         \/ \E i \in 1..Len(d) : d[i].uri = uri /\ GetIn(d, uri) = d[i].text /\ d[i].text \in Texts
<1>1. \A i \in 1..Len(d) : d[i] \in Entry BY DEF Distinct
<1>2. \A i \in 1..Len(d) : d[i].text \in Texts BY <1>1 DEF Entry
<1> QED BY <1>2, GetInOne

\* Setting and removing an entry keep one entry per uri and change what is found under
\* that uri alone.
LEMMA StoreSetOne ==
  ASSUME Distinct(docs), NEW uri \in Uris, NEW text \in Texts
  PROVE  /\ Distinct(StoreSet(uri, text))
         /\ \A u : GetIn(StoreSet(uri, text), u) = IF u = uri THEN text ELSE GetIn(docs, u)
<1> DEFINE d == StoreSet(uri, text)
           entry == [uri |-> uri, text |-> text]
<1>1. docs \in Seq(Entry) /\ DOMAIN docs = 1..Len(docs) /\ Len(docs) \in Nat /\ entry \in Entry
  BY DEF Distinct, Entry
<1>2. CASE \A i \in 1..Len(docs) : docs[i].uri # uri
  <2>1. d = Append(docs, entry) BY <1>1, <1>2 DEF StoreSet, Entries
  <2>2. /\ Append(docs, entry) \in Seq(Entry) /\ Len(Append(docs, entry)) = Len(docs) + 1
        /\ \A i \in 1..Len(docs) : Append(docs, entry)[i] = docs[i]
        /\ Append(docs, entry)[Len(docs) + 1] = entry
    <3> HIDE DEF entry
    <3> QED BY <1>1
  <2>3. /\ d \in Seq(Entry) /\ Len(d) = Len(docs) + 1
        /\ \A i \in 1..Len(docs) : d[i] = docs[i]
        /\ d[Len(docs) + 1] = entry
    BY <2>1, <2>2, Zenon
  <2>4. entry.uri = uri /\ entry.text = text OBVIOUS
  <2> HIDE DEF d, entry
  <2>5. Distinct(d)
    <3> SUFFICES ASSUME NEW i \in 1..Len(d), NEW j \in 1..Len(d), d[i].uri = d[j].uri PROVE i = j
      BY <2>3 DEF Distinct
    <3>1. (i \in 1..Len(docs) \/ i = Len(docs) + 1) /\ (j \in 1..Len(docs) \/ j = Len(docs) + 1) BY <1>1, <2>3
    <3> QED BY <1>2, <2>3, <2>4, <3>1 DEF Distinct
  <2>6. ASSUME NEW u PROVE GetIn(d, u) = IF u = uri THEN text ELSE GetIn(docs, u)
    <3>1. CASE u = uri
      <4>1. Len(docs) + 1 \in 1..Len(d) BY <1>1, <2>3
      <4> QED BY <2>3, <2>4, <2>5, <3>1, <4>1, GetInOne
    <3>2. CASE u # uri /\ \A i \in 1..Len(docs) : docs[i].uri # u
      <4>1. \A i \in 1..Len(d) : i \in 1..Len(docs) \/ i = Len(docs) + 1 BY <1>1, <2>3
      <4>2. \A i \in 1..Len(d) : d[i].uri # u BY <2>3, <2>4, <3>2, <4>1
      <4> QED BY <2>5, <3>2, <4>2, GetInOne
    <3>3. CASE u # uri /\ \E i \in 1..Len(docs) : docs[i].uri = u
      <4>1. PICK i \in 1..Len(docs) : docs[i].uri = u BY <3>3
      <4>2. GetIn(docs, u) = docs[i].text BY <4>1, GetInOne
      <4>3. i \in 1..Len(d) /\ d[i] = docs[i] BY <1>1, <2>3
      <4>4. GetIn(d, u) = d[i].text BY <2>5, <4>1, <4>3, GetInOne
      <4> QED BY <3>3, <4>2, <4>3, <4>4
    <3> QED BY <3>1, <3>2, <3>3
  <2> QED BY <2>5, <2>6 DEF d
<1>3. CASE \E i \in 1..Len(docs) : docs[i].uri = uri
  <2>1. PICK i \in 1..Len(docs) : docs[i].uri = uri BY <1>3
  <2>2. Entries(uri) = {i} BY <1>1, <2>1 DEF Entries, Distinct
  <2>3. Min({i}) = i BY <1>1 DEF Min
  <2>4. d = [docs EXCEPT ![i].text = text] BY <2>2, <2>3 DEF StoreSet
  <2>5. docs[i] \in Entry BY <1>1
  <2>6. /\ d \in Seq(Entry) /\ Len(d) = Len(docs)
        /\ \A j \in 1..Len(docs) : j # i => d[j] = docs[j]
        /\ d[i].uri = uri /\ d[i].text = text
    <3>1. [docs[i] EXCEPT !.text = text] \in Entry BY <2>5 DEF Entry
    <3>2. [docs[i] EXCEPT !.text = text].uri = uri /\ [docs[i] EXCEPT !.text = text].text = text
      BY <2>1, <2>5 DEF Entry
    <3>3. d = [docs EXCEPT ![i] = [docs[i] EXCEPT !.text = text]] BY <2>4
    <3> HIDE DEF d
    <3> QED BY <1>1, <3>1, <3>2, <3>3, ExceptSeq
  <2> HIDE DEF d
  <2>7. \A j \in 1..Len(docs) : d[j].uri = docs[j].uri BY <2>1, <2>6
  <2>8. Distinct(d) BY <2>6, <2>7 DEF Distinct
  <2>9. ASSUME NEW u PROVE GetIn(d, u) = IF u = uri THEN text ELSE GetIn(docs, u)
    <3>1. CASE u = uri BY <2>6, <2>8, <3>1, GetInOne
    <3>2. CASE u # uri /\ \A j \in 1..Len(docs) : docs[j].uri # u
      BY <2>6, <2>7, <2>8, <3>2, GetInOne
    <3>3. CASE u # uri /\ \E j \in 1..Len(docs) : docs[j].uri = u
      <4>1. PICK j \in 1..Len(docs) : docs[j].uri = u BY <3>3
      <4>2. j # i /\ j \in 1..Len(d) /\ d[j] = docs[j] BY <2>1, <2>6, <3>3, <4>1
      <4>3. GetIn(docs, u) = docs[j].text BY <4>1, GetInOne
      <4>4. GetIn(d, u) = d[j].text BY <2>8, <4>1, <4>2, GetInOne
      <4> QED BY <3>3, <4>2, <4>3, <4>4
    <3> QED BY <3>1, <3>2, <3>3
  <2> QED BY <2>8, <2>9 DEF d
<1> QED BY <1>2, <1>3

LEMMA StoreRemoveOne ==
  ASSUME Distinct(docs), NEW uri \in Uris
  PROVE  /\ Distinct(StoreRemove(uri))
         /\ \A u : GetIn(StoreRemove(uri), u) = IF u = uri THEN NoText ELSE GetIn(docs, u)
<1> DEFINE d == StoreRemove(uri)
<1>1. docs \in Seq(Entry) /\ DOMAIN docs = 1..Len(docs) /\ Len(docs) \in Nat BY DEF Distinct
<1>2. CASE \A i \in 1..Len(docs) : docs[i].uri # uri
  <2>1. d = docs BY <1>1, <1>2 DEF StoreRemove, Entries
  <2> QED BY <1>2, <2>1, GetInOne
<1>3. CASE \E i \in 1..Len(docs) : docs[i].uri = uri
  <2>1. PICK i \in 1..Len(docs) : docs[i].uri = uri BY <1>3
  <2>2. Entries(uri) = {i} BY <1>1, <2>1 DEF Entries, Distinct
  <2>3. Min({i}) = i BY <1>1 DEF Min
  <2>4. d = SubSeq(docs, 1, i - 1) \o SubSeq(docs, i + 1, Len(docs))
    BY <2>2, <2>3 DEF StoreRemove, RemoveAt
  <2> DEFINE front == SubSeq(docs, 1, i - 1)
             back == SubSeq(docs, i + 1, Len(docs))
  <2>5. front \in Seq(Entry) /\ Len(front) = i - 1 /\ \A j \in 1..i - 1 : front[j] = docs[j]
    BY <1>1
  <2>6. back \in Seq(Entry) /\ Len(back) = Len(docs) - i /\ \A j \in 1..Len(docs) - i : back[j] = docs[i + j]
    <3>1. i + 1 \in Int /\ Len(docs) \in Int /\ \A j \in i + 1 .. Len(docs) : docs[j] \in Entry BY <1>1
    <3>2. Len(back) = Len(docs) - i /\ back \in Seq(Entry)
      <4>1. back \in Seq(Entry) BY <3>1
      <4>2. Len(back) = IF i + 1 <= Len(docs) THEN Len(docs) - (i + 1) + 1 ELSE 0 BY <3>1
      <4>3. i \in Nat /\ Len(docs) \in Nat /\ i <= Len(docs) BY <1>1
      <4> HIDE DEF back
      <4>4. CASE i + 1 <= Len(docs)
        <5>1. Len(back) = Len(docs) - (i + 1) + 1 BY <4>2, <4>4
        <5> QED BY <4>1, <4>3, <5>1
      <4>5. CASE i = Len(docs)
        <5>1. Len(back) = 0 BY <4>2, <4>3, <4>5
        <5> QED BY <4>1, <4>3, <4>5, <5>1
      <4> QED BY <4>3, <4>4, <4>5
    <3>3. \A j \in 1..Len(docs) - i : back[j] = docs[(i + 1) + j - 1] BY <1>1, <3>1
    <3>4. \A j \in 1..Len(docs) - i : (i + 1) + j - 1 = i + j BY <1>1
    <3> HIDE DEF back
    <3> QED BY <3>2, <3>3, <3>4
  <2>7. /\ d \in Seq(Entry) /\ Len(d) = Len(docs) - 1
        /\ \A j \in 1..Len(d) : d[j] = IF j < i THEN docs[j] ELSE docs[j + 1]
    <3>1. /\ front \o back \in Seq(Entry) /\ Len(front \o back) = Len(front) + Len(back)
          /\ \A j \in 1..Len(front) + Len(back) :
               (front \o back)[j] = IF j <= Len(front) THEN front[j] ELSE back[j - Len(front)]
      <4>1. front \in Seq(Entry) /\ back \in Seq(Entry) BY <2>5, <2>6
      <4> HIDE DEF front, back
      <4> QED BY <4>1, ConcatProperties
    <3>2. /\ d \in Seq(Entry) /\ Len(d) = Len(front) + Len(back)
          /\ \A j \in 1..Len(front) + Len(back) :
               d[j] = IF j <= Len(front) THEN front[j] ELSE back[j - Len(front)]
      BY <2>4, <3>1, Zenon
    <3> HIDE DEF d, front, back
    <3>3. Len(d) = Len(docs) - 1 BY <1>1, <2>5, <2>6, <3>2
    <3>4. ASSUME NEW j \in 1..Len(d) PROVE d[j] = IF j < i THEN docs[j] ELSE docs[j + 1]
      <4>1. CASE j < i
        <5>1. j \in 1..i - 1 /\ j <= Len(front) BY <1>1, <2>5, <3>3, <4>1
        <5> QED BY <2>5, <3>2, <4>1, <5>1
      <4>2. CASE ~(j < i)
        <5>1. ~(j <= Len(front)) /\ j - (i - 1) \in 1..Len(docs) - i /\ i + (j - (i - 1)) = j + 1
          BY <1>1, <2>5, <3>3, <4>2
        <5>2. d[j] = back[j - (i - 1)] BY <2>5, <3>2, <5>1
        <5> QED BY <2>6, <4>2, <5>1, <5>2
      <4> QED BY <4>1, <4>2
    <3> QED BY <3>2, <3>3, <3>4
  <2> DEFINE at(j) == IF j < i THEN j ELSE j + 1
  <2> HIDE DEF d
  <2>8. \A j \in 1..Len(d) : at(j) \in 1..Len(docs) /\ at(j) # i /\ d[j] = docs[at(j)] BY <1>1, <2>7
  <2>9. \A k \in 1..Len(docs) : k # i => \E j \in 1..Len(d) : at(j) = k
    <3> SUFFICES ASSUME NEW k \in 1..Len(docs), k # i PROVE \E j \in 1..Len(d) : at(j) = k
      OBVIOUS
    <3>1. CASE k < i
      <4>1. k \in 1..Len(d) /\ at(k) = k BY <1>1, <2>7, <3>1
      <4> QED BY <4>1
    <3>2. CASE k > i
      <4>1. k - 1 \in 1..Len(d) /\ at(k - 1) = k BY <1>1, <2>7, <3>2
      <4> QED BY <4>1
    <3> QED BY <1>1, <3>1, <3>2
  <2>10. \A j, k \in 1..Len(d) : at(j) = at(k) => j = k BY <1>1, <2>7
  <2> HIDE DEF at
  <2>11. Distinct(d) BY <2>7, <2>8, <2>10 DEF Distinct
  <2>12. \A k \in 1..Len(docs) : k # i => docs[k].uri # uri BY <2>1 DEF Distinct
  <2>13. ASSUME NEW u PROVE GetIn(d, u) = IF u = uri THEN NoText ELSE GetIn(docs, u)
    <3>1. CASE u = uri
      <4>1. \A j \in 1..Len(d) : d[j].uri # uri BY <2>8, <2>12
      <4> QED BY <2>11, <3>1, <4>1, GetInOne
    <3>2. CASE u # uri /\ \A k \in 1..Len(docs) : docs[k].uri # u
      <4>1. \A j \in 1..Len(d) : d[j].uri # u BY <2>8, <3>2
      <4> QED BY <2>11, <3>2, <4>1, GetInOne
    <3>3. CASE u # uri /\ \E k \in 1..Len(docs) : docs[k].uri = u
      <4>1. PICK k \in 1..Len(docs) : docs[k].uri = u BY <3>3
      <4>2. PICK j \in 1..Len(d) : at(j) = k BY <2>1, <2>9, <3>3, <4>1
      <4>3. d[j] = docs[k] BY <2>8, <4>2
      <4>4. GetIn(d, u) = d[j].text BY <2>11, <4>1, <4>3, GetInOne
      <4>5. GetIn(docs, u) = docs[k].text BY <4>1, GetInOne
      <4> QED BY <3>3, <4>3, <4>4, <4>5
    <3> QED BY <3>1, <3>2, <3>3
  <2> QED BY <2>11, <2>13 DEF d
<1> QED BY <1>2, <1>3

\* A text that json_token_to_string cannot hand over ends the server.
LEMMA ServedText ==
  ASSUME Serve, toServer # << >>, NEW uri \in Uris, NEW text \in Texts,
         Head(toServer) \in {OpenMessage(uri, text), ChangeMessage(uri, text)}
  PROVE  /\ IF text \in {Empty, Garbled} THEN Stop(1) /\ UNCHANGED <<docs, toClient>>
            ELSE docs' = StoreSet(uri, text) /\ Publish(uri, text)
         /\ UNCHANGED shutdownRequested
         /\ Method(Head(toServer)) \notin {"shutdown", "exit"}
<1> DEFINE m == Head(toServer)
<1>1. uri # NoString /\ text # NoString BY LspAssumption
<1>2. Read(text) = NoString <=> text \in {Empty, Garbled} BY <1>1 DEF Read
<1>3. text \notin {Empty, Garbled} => Read(text) = text BY DEF Read
<1>4. CASE m = OpenMessage(uri, text)
  <2> DEFINE at == Member(m, TextDocument(m), "text")
  <2>1. /\ Method(m) = "textDocument/didOpen"
        /\ UriIndex(m) # NoIndex /\ StringAt(m, UriIndex(m)) = uri
        /\ at # NoIndex /\ StringAt(m, at) = Read(text)
    BY <1>4, OpenReads
  <2>2. DidOpen(m) /\ UNCHANGED shutdownRequested BY <2>1, Dispatch
  <2>3. StoreAndPublish(m, at) BY <2>2 DEF DidOpen
  <2> HIDE DEF m, at
  <2>4. IF text \in {Empty, Garbled} THEN Stop(1) /\ UNCHANGED <<docs, toClient>>
        ELSE docs' = StoreSet(uri, text) /\ Publish(uri, text)
    BY <1>1, <1>2, <1>3, <2>1, <2>3 DEF StoreAndPublish
  <2> QED BY <2>1, <2>2, <2>4 DEF m
<1>5. CASE m = ChangeMessage(uri, text)
  <2> DEFINE at == Member(m, ArrayFirst(m, Member(m, Params(m), "contentChanges")), "text")
  <2>1. /\ Method(m) = "textDocument/didChange"
        /\ UriIndex(m) # NoIndex /\ StringAt(m, UriIndex(m)) = uri
        /\ at # NoIndex /\ StringAt(m, at) = Read(text)
    BY <1>5, ChangeReads
  <2>2. DidChange(m) /\ UNCHANGED shutdownRequested BY <2>1, Dispatch
  <2>3. StoreAndPublish(m, at) BY <2>2 DEF DidChange
  <2> HIDE DEF m, at
  <2>4. IF text \in {Empty, Garbled} THEN Stop(1) /\ UNCHANGED <<docs, toClient>>
        ELSE docs' = StoreSet(uri, text) /\ Publish(uri, text)
    BY <1>1, <1>2, <1>3, <2>1, <2>3 DEF StoreAndPublish
  <2> QED BY <2>1, <2>2, <2>4 DEF m
<1> QED BY <1>4, <1>5

LEMMA ServedClose ==
  ASSUME Serve, toServer # << >>, NEW uri \in Uris, Head(toServer) = CloseMessage(uri)
  PROVE  /\ docs' = StoreRemove(uri) /\ Publish(uri, NoText) /\ UNCHANGED shutdownRequested
         /\ Method(Head(toServer)) \notin {"shutdown", "exit"}
<1> DEFINE m == Head(toServer)
<1>1. uri # NoString BY LspAssumption
<1>2. /\ Method(m) = "textDocument/didClose"
      /\ UriIndex(m) # NoIndex /\ StringAt(m, UriIndex(m)) = uri
  BY CloseReads
<1>3. DidClose(m) /\ UNCHANGED shutdownRequested BY <1>2, Dispatch
<1> HIDE DEF m
<1>4. docs' = StoreRemove(uri) /\ Publish(uri, NoText) BY <1>1, <1>2, <1>3 DEF DidClose
<1> QED BY <1>2, <1>3, <1>4 DEF m

LEMMA PlainReads ==
  /\ Method(NotJson) = NoString
  /\ Method(Envelope(0, "initialized")) = "initialized" /\ ~Asks(Envelope(0, "initialized"))
  /\ Method(Envelope(0, "exit")) = "exit"
<1>1. "initialized" \in Methods /\ "exit" \in Methods BY DEF Methods, Handled
<1>2. /\ Notifies(Envelope(0, "initialized"), "initialized") /\ Notifies(Envelope(0, "exit"), "exit")
  BY <1>1, Envelopes
<1>3. /\ Method(Envelope(0, "initialized")) = "initialized" /\ IdIndex(Envelope(0, "initialized")) = NoIndex
      /\ Method(Envelope(0, "exit")) = "exit"
  BY <1>1, <1>2, NotifiesReads
<1> QED BY <1>3 DEF Asks, Method

LEMMA ServedPlain ==
  ASSUME Serve, toServer # << >>, Head(toServer) \in Plain
  PROVE  /\ UNCHANGED <<docs, shutdownRequested, toClient>>
         /\ Method(Head(toServer)) # "shutdown"
         /\ IF Method(Head(toServer)) = "exit" THEN Stop(IF shutdownRequested THEN 0 ELSE 1)
            ELSE UNCHANGED exitCode
<1> DEFINE m == Head(toServer)
<1>1. CASE m = NotJson
  <2>1. Method(m) = NoString BY <1>1, PlainReads
  <2>2. UNCHANGED <<serverVars, toClient>> BY <2>1, Dispatch
  <2> QED BY <2>1, <2>2 DEF serverVars, NoString
<1>2. CASE m = Envelope(0, "initialized")
  <2>1. Method(m) = "initialized" /\ ~Asks(m) BY <1>2, PlainReads
  <2>2. Replying(m, "method not found") /\ UNCHANGED <<docs, shutdownRequested>> BY <2>1, Dispatch
  <2> QED BY <2>1, <2>2 DEF Replying, Quiet
<1>3. CASE m = Envelope(0, "exit")
  <2>1. Method(m) = "exit" BY <1>3, PlainReads
  <2> QED BY <2>1, Dispatch
<1> QED BY <1>1, <1>2, <1>3 DEF Plain

\* Request n without a document.
AsksBare(m, n, method) ==
  /\ m # NotJson /\ Method(m) = method /\ Params(m) # NoIndex
  /\ Asks(m) /\ m[IdIndex(m)] = Token(1, IdType, Ids[n])
  /\ UriIndex(m) = NoIndex

LEMMA BareReads ==
  ASSUME NEW n \in 1..MaxSends, NEW method \in Methods
  PROVE  AsksBare(Envelope(n, method), n, method)
<1> DEFINE m == Envelope(n, method)
<1>1. Requests(m, n, method) /\ Len(m) = 9 BY Envelopes
<1>2. /\ m # NotJson /\ Method(m) = method /\ Params(m) = 9
      /\ IdIndex(m) = 5 /\ m[5] = Token(1, IdType, Ids[n])
  BY <1>1, RequestsReads
<1>3. m \in Seq(LspTokens) BY <1>1 DEF Requests
<1> HIDE DEF m
<1>4. ObjectGet(m, 9, "textDocument") = NoIndex
  <2>1. 9 \in 1..Len(m) /\ \A k \in 9 + 1 .. Len(m) - 1 : FALSE BY <1>1
  <2> QED BY <1>3, <2>1, NoLookup
<1>5. UriIndex(m) = NoIndex BY <1>2, <1>4 DEF UriIndex, TextDocument, Member
<1> QED BY <1>2, <1>5 DEF NoIndex, Asks, AsksBare, m

\* How a request about a document is answered.
LEMMA ServedDocument ==
  ASSUME Serve, toServer # << >>, NEW m, m = Head(toServer), NEW id,
         Method(m) \in Documented, Asks(m), m[IdIndex(m)] = id, Params(m) # NoIndex
  PROVE  LET uri == StringAt(m, UriIndex(m)) IN
         /\ UNCHANGED <<docs, shutdownRequested>>
         /\ Method(m) = "textDocument/completion" => Respond(id, StoreGet(uri))
         /\ Method(m) = "textDocument/hover" =>
              Respond(id, IF NoIndex \in {UriIndex(m), Line(m), Character(m)} THEN "missing position"
                          ELSE IF uri = NoString THEN "invalid uri"
                          ELSE IF StoreGet(uri) = NoText THEN NoText
                          ELSE IF ~IsLong(m[Line(m)]) \/ ~IsLong(m[Character(m)]) THEN "invalid position"
                          ELSE StoreGet(uri))
         /\ Method(m) = "textDocument/documentSymbol" =>
              Respond(id, IF UriIndex(m) = NoIndex THEN "missing uri"
                          ELSE IF uri = NoString THEN "invalid uri" ELSE StoreGet(uri))
<1>1. /\ Method(m) = "textDocument/completion" => Completion(m, id)
      /\ Method(m) = "textDocument/hover" => Hover(m, id)
      /\ Method(m) = "textDocument/documentSymbol" => DocumentSymbol(m, id)
      /\ UNCHANGED <<docs, shutdownRequested>>
  BY Dispatch DEF Documented
<1>2. CASE Method(m) = "textDocument/completion"
  <2>1. Completion(m, id) BY <1>1, <1>2
  <2> QED BY <1>1, <1>2, <2>1 DEF Completion
<1>3. CASE Method(m) = "textDocument/hover"
  <2>1. Hover(m, id) BY <1>1, <1>3
  <2> QED BY <1>1, <1>3, <2>1 DEF Hover, RespondError, Position, Line, Character
<1>4. CASE Method(m) = "textDocument/documentSymbol"
  <2>1. DocumentSymbol(m, id) BY <1>1, <1>4
  <2> QED BY <1>1, <1>4, <2>1 DEF DocumentSymbol, RespondError
<1> QED BY <1>2, <1>3, <1>4 DEF Documented

\* What becomes of shutdownRequested with a message that is a request.
RemembersShutdown(m) ==
  /\ Method(m) # "exit"
  /\ IF Method(m) = "shutdown" THEN shutdownRequested' = TRUE ELSE UNCHANGED shutdownRequested

\* The answer that a request about a document, whose uri the server can read, gets: the
\* text that its document had when it was made.
LEMMA ServedAsk ==
  ASSUME Serve, toServer # << >>, NEW m, m = Head(toServer), NEW n \in 1..MaxSends,
         NEW method \in Documented, NEW u \in Uris, NEW lineType \in {"primitive", "string"},
         lineType = "string" => method = "textDocument/hover",
         m = AskMessage(n, method, u, lineType)
  PROVE  /\ Respond(Token(1, IdType, Ids[n]),
                    IF lineType = "string" /\ StoreGet(u) # NoText THEN "invalid position" ELSE StoreGet(u))
         /\ UNCHANGED docs /\ RemembersShutdown(m)
<1> DEFINE id == Token(1, IdType, Ids[n])
           uri == StringAt(m, UriIndex(m))
<1>1. AsksAbout(m, n, method, u, lineType) BY AskReads
<1>2. Method(m) = method /\ Asks(m) /\ m[IdIndex(m)] = id /\ Params(m) # NoIndex BY <1>1 DEF AsksAbout
<1>3. UriIndex(m) # NoIndex /\ Line(m) # NoIndex /\ Character(m) # NoIndex BY <1>1 DEF AsksAbout
<1>4. (IsLong(m[Line(m)]) <=> lineType = "primitive") /\ IsLong(m[Character(m)]) BY <1>1 DEF AsksAbout
<1>5. uri = u /\ u # NoString BY <1>1, LspAssumption DEF AsksAbout, Read
<1> HIDE DEF id
<1>6. /\ UNCHANGED <<docs, shutdownRequested>>
      /\ method = "textDocument/completion" => Respond(id, StoreGet(uri))
      /\ method = "textDocument/hover" =>
           Respond(id, IF NoIndex \in {UriIndex(m), Line(m), Character(m)} THEN "missing position"
                       ELSE IF uri = NoString THEN "invalid uri"
                       ELSE IF StoreGet(uri) = NoText THEN NoText
                       ELSE IF ~IsLong(m[Line(m)]) \/ ~IsLong(m[Character(m)]) THEN "invalid position"
                       ELSE StoreGet(uri))
      /\ method = "textDocument/documentSymbol" =>
           Respond(id, IF UriIndex(m) = NoIndex THEN "missing uri"
                       ELSE IF uri = NoString THEN "invalid uri" ELSE StoreGet(uri))
  BY <1>2, ServedDocument
<1> HIDE DEF uri
<1>7. RemembersShutdown(m) BY <1>2, <1>6 DEF RemembersShutdown, Documented
<1>8. CASE method = "textDocument/completion" BY <1>5, <1>6, <1>7, <1>8 DEF id
<1>9. CASE method = "textDocument/hover"
  <2>1. Respond(id, IF StoreGet(u) = NoText THEN NoText
                    ELSE IF ~IsLong(m[Line(m)]) THEN "invalid position" ELSE StoreGet(u))
    BY <1>3, <1>4, <1>5, <1>6, <1>9
  <2>2. (IF StoreGet(u) = NoText THEN NoText
         ELSE IF ~IsLong(m[Line(m)]) THEN "invalid position" ELSE StoreGet(u))
        = (IF lineType = "string" /\ StoreGet(u) # NoText THEN "invalid position" ELSE StoreGet(u))
    BY <1>4
  <2> QED BY <1>6, <1>7, <2>1, <2>2 DEF id
<1>10. CASE method = "textDocument/documentSymbol" BY <1>3, <1>5, <1>6, <1>7, <1>10 DEF id
<1> QED BY <1>8, <1>9, <1>10 DEF Documented

\* The answer to a request whose uri the server cannot read, or that names no document.
LEMMA ServedNowhere ==
  ASSUME Serve, toServer # << >>, NEW m, m = Head(toServer), NEW n \in 1..MaxSends,
         NEW method \in Documented, StoreGet(NoString) = NoText,
         \/ m = AskMessage(n, method, Garbled, "primitive")
         \/ m = Envelope(n, method)
  PROVE  /\ Respond(Token(1, IdType, Ids[n]),
                    IF m = Envelope(n, method) /\ UriIndex(m) = NoIndex THEN WithoutDocument(method)
                    ELSE IF method = "textDocument/completion" THEN NoText ELSE "invalid uri")
         /\ (UriIndex(m) = NoIndex <=> m = Envelope(n, method))
         /\ UNCHANGED docs /\ RemembersShutdown(m)
<1> DEFINE id == Token(1, IdType, Ids[n])
           uri == StringAt(m, UriIndex(m))
<1>1. \/ UriIndex(m) = NoIndex /\ AsksBare(m, n, method) /\ m = Envelope(n, method)
      \/ UriIndex(m) # NoIndex /\ AsksAbout(m, n, method, Garbled, "primitive") /\ m # Envelope(n, method)
  <2>1. method \in Methods BY DEF Methods, Handled
  <2>2. AsksBare(Envelope(n, method), n, method) BY <2>1, BareReads
  <2>3. AsksAbout(AskMessage(n, method, Garbled, "primitive"), n, method, Garbled, "primitive") BY AskReads
  <2> QED BY <2>2, <2>3 DEF AsksBare, AsksAbout
<1>2. Method(m) = method /\ Asks(m) /\ m[IdIndex(m)] = id /\ Params(m) # NoIndex
  BY <1>1 DEF AsksAbout, AsksBare
<1>3. uri = NoString
  <2>1. CASE UriIndex(m) = NoIndex BY <2>1 DEF StringAt
  <2>2. CASE AsksAbout(m, n, method, Garbled, "primitive") BY <2>2 DEF AsksAbout, Read
  <2> QED BY <1>1, <2>1, <2>2
<1>4. UriIndex(m) # NoIndex => Line(m) # NoIndex /\ Character(m) # NoIndex BY <1>1 DEF AsksAbout
<1> HIDE DEF id
<1>5. /\ UNCHANGED <<docs, shutdownRequested>>
      /\ method = "textDocument/completion" => Respond(id, StoreGet(uri))
      /\ method = "textDocument/hover" =>
           Respond(id, IF NoIndex \in {UriIndex(m), Line(m), Character(m)} THEN "missing position"
                       ELSE IF uri = NoString THEN "invalid uri"
                       ELSE IF StoreGet(uri) = NoText THEN NoText
                       ELSE IF ~IsLong(m[Line(m)]) \/ ~IsLong(m[Character(m)]) THEN "invalid position"
                       ELSE StoreGet(uri))
      /\ method = "textDocument/documentSymbol" =>
           Respond(id, IF UriIndex(m) = NoIndex THEN "missing uri"
                       ELSE IF uri = NoString THEN "invalid uri" ELSE StoreGet(uri))
  BY <1>2, ServedDocument
<1> HIDE DEF uri
<1>6. RemembersShutdown(m) BY <1>2, <1>5 DEF RemembersShutdown, Documented
<1>7. (UriIndex(m) = NoIndex <=> m = Envelope(n, method)) BY <1>1
<1>8. CASE method = "textDocument/completion"
  <2>1. Respond(id, NoText) BY <1>3, <1>5, <1>8
  <2>2. WithoutDocument(method) = NoText BY <1>8 DEF WithoutDocument
  <2> QED BY <1>5, <1>6, <1>7, <1>8, <2>1, <2>2 DEF id
<1>9. CASE method = "textDocument/hover"
  <2>1. Respond(id, IF UriIndex(m) = NoIndex THEN "missing position" ELSE "invalid uri")
    BY <1>3, <1>4, <1>5, <1>9
  <2>2. WithoutDocument(method) = "missing position" BY <1>9 DEF WithoutDocument
  <2> QED BY <1>5, <1>6, <1>7, <1>9, <2>1, <2>2 DEF id
<1>10. CASE method = "textDocument/documentSymbol"
  <2>1. Respond(id, IF UriIndex(m) = NoIndex THEN "missing uri" ELSE "invalid uri")
    BY <1>3, <1>5, <1>10
  <2>2. WithoutDocument(method) = "missing uri" BY <1>10 DEF WithoutDocument
  <2> QED BY <1>5, <1>6, <1>7, <1>10, <2>1, <2>2 DEF id
<1> QED BY <1>8, <1>9, <1>10 DEF Documented

LEMMA ServedRequest ==
  ASSUME Serve, toServer # << >>, NEW m, m = Head(toServer), NEW n \in 1..MaxSends,
         Distinct(docs), NEW v, \A uri \in Uris : StoreGet(uri) = v[uri],
         NEW e, Requesting(m, n, v, e)
  PROVE  Respond(Token(1, IdType, Ids[n]), e) /\ UNCHANGED docs /\ RemembersShutdown(m)
<1> DEFINE id == Token(1, IdType, Ids[n])
<1>1. StoreGet(NoString) = NoText
  <2>1. \A i \in 1..Len(docs) : docs[i].uri \in Uris
    <3>1. \A i \in 1..Len(docs) : docs[i] \in Entry BY DEF Distinct
    <3> QED BY <3>1 DEF Entry
  <2>2. NoString \notin Uris BY LspAssumption
  <2>3. \A i \in 1..Len(docs) : docs[i].uri # NoString BY <2>1, <2>2
  <2> QED BY <2>3, GetInOne, StoreGetIn
<1>2. CASE \E method \in Documented, uri \in Uris : m = AskMessage(n, method, uri, "primitive") /\ e = v[uri]
  <2>1. PICK method \in Documented, uri \in Uris : m = AskMessage(n, method, uri, "primitive") /\ e = v[uri]
    BY <1>2
  <2>2. StoreGet(uri) = e BY <2>1
  <2>3. /\ Respond(id, IF "primitive" = "string" /\ StoreGet(uri) # NoText THEN "invalid position" ELSE StoreGet(uri))
        /\ UNCHANGED docs /\ RemembersShutdown(m)
    BY <2>1, ServedAsk
  <2> QED BY <2>2, <2>3
<1>3. CASE \E uri \in Uris : /\ m = AskMessage(n, "textDocument/hover", uri, "string")
                             /\ e = IF v[uri] = NoText THEN NoText ELSE "invalid position"
  <2>1. PICK uri \in Uris : /\ m = AskMessage(n, "textDocument/hover", uri, "string")
                            /\ e = IF v[uri] = NoText THEN NoText ELSE "invalid position"
    BY <1>3
  <2>2. "textDocument/hover" \in Documented BY DEF Documented
  <2>3. /\ Respond(id, IF "string" = "string" /\ StoreGet(uri) # NoText THEN "invalid position" ELSE StoreGet(uri))
        /\ UNCHANGED docs /\ RemembersShutdown(m)
    BY <2>1, <2>2, ServedAsk
  <2>4. (IF "string" = "string" /\ StoreGet(uri) # NoText THEN "invalid position" ELSE StoreGet(uri)) = e
    BY <2>1
  <2> QED BY <2>3, <2>4
<1>4. CASE \E method \in Documented : /\ m = AskMessage(n, method, Garbled, "primitive")
                                      /\ e = IF method = "textDocument/completion" THEN NoText ELSE "invalid uri"
  <2>1. PICK method \in Documented : /\ m = AskMessage(n, method, Garbled, "primitive")
                                     /\ e = IF method = "textDocument/completion" THEN NoText ELSE "invalid uri"
    BY <1>4
  <2>2. UriIndex(m) # NoIndex
    <3>1. AsksAbout(m, n, method, Garbled, "primitive") BY <2>1, AskReads
    <3> QED BY <3>1 DEF AsksAbout
  <2>3. /\ Respond(id, IF m = Envelope(n, method) /\ UriIndex(m) = NoIndex THEN WithoutDocument(method)
                       ELSE IF method = "textDocument/completion" THEN NoText ELSE "invalid uri")
        /\ UNCHANGED docs /\ RemembersShutdown(m)
    BY <1>1, <2>1, ServedNowhere
  <2> QED BY <2>1, <2>2, <2>3
<1>5. CASE \E method \in Documented : m = Envelope(n, method) /\ e = WithoutDocument(method)
  <2>1. PICK method \in Documented : m = Envelope(n, method) /\ e = WithoutDocument(method) BY <1>5
  <2>2. UriIndex(m) = NoIndex
    <3>1. method \in Methods BY DEF Methods, Handled
    <3>2. AsksBare(m, n, method) BY <2>1, <3>1, BareReads
    <3> QED BY <3>2 DEF AsksBare
  <2>3. /\ Respond(id, IF m = Envelope(n, method) /\ UriIndex(m) = NoIndex THEN WithoutDocument(method)
                       ELSE IF method = "textDocument/completion" THEN NoText ELSE "invalid uri")
        /\ UNCHANGED docs /\ RemembersShutdown(m)
    BY <1>1, <2>1, ServedNowhere
  <2> QED BY <2>1, <2>2, <2>3
<1>6. CASE \E method \in {"initialize", "workspace/symbol"} : m = Envelope(n, method) /\ e = WithoutDocument(method)
  <2>1. PICK method \in {"initialize", "workspace/symbol"} : m = Envelope(n, method) /\ e = WithoutDocument(method)
    BY <1>6
  <2>2. Method(m) = method /\ Asks(m) /\ m[IdIndex(m)] = id
    <3>1. method \in Methods BY DEF Methods, Handled
    <3>2. AsksBare(m, n, method) BY <2>1, <3>1, BareReads
    <3> QED BY <3>2 DEF AsksBare
  <2>3. Replying(m, e) /\ UNCHANGED <<docs, shutdownRequested>>
    <3>1. CASE method = "initialize"
      <4>1. WithoutDocument(method) = "capabilities" BY <3>1 DEF WithoutDocument
      <4> QED BY <2>1, <2>2, <3>1, <4>1, Dispatch
    <3>2. CASE method = "workspace/symbol"
      <4>1. WithoutDocument(method) = "method not found" BY <3>2 DEF WithoutDocument
      <4> QED BY <2>1, <2>2, <3>2, <4>1, Dispatch
    <3> QED BY <3>1, <3>2
  <2>4. RemembersShutdown(m) BY <2>2, <2>3 DEF RemembersShutdown
  <2> QED BY <2>2, <2>3, <2>4 DEF Replying
<1>7. CASE m = Envelope(n, "shutdown") /\ e = "null"
  <2>1. Method(m) = "shutdown" /\ Asks(m) /\ m[IdIndex(m)] = id
    <3>1. "shutdown" \in Methods BY DEF Methods, Handled
    <3>2. AsksBare(m, n, "shutdown") BY <1>7, <3>1, BareReads
    <3> QED BY <3>2 DEF AsksBare
  <2>2. Replying(m, e) /\ shutdownRequested' = TRUE /\ UNCHANGED docs BY <1>7, <2>1, Dispatch
  <2>3. RemembersShutdown(m) BY <2>1, <2>2 DEF RemembersShutdown
  <2> QED BY <2>1, <2>2, <2>3 DEF Replying
<1> QED BY <1>2, <1>3, <1>4, <1>5, <1>6, <1>7 DEF Requesting, Asking

\* The four things that the server does with message n of the editor, which took the
\* editor's documents from v to w.
Unanswered(n) == \A p \in pending : p.number # n

Refused(m) ==
  /\ Texts \cap {Empty, Garbled} # {} /\ exitCode' = 1
  /\ Method(m) \notin {"shutdown", "exit"}
  /\ UNCHANGED <<docs, shutdownRequested, toClient>>

Stored(m, n, w) ==
  /\ Distinct(docs') /\ (\A u \in Uris : GetIn(docs', u) = w[u])
  /\ \E uri \in Uris, text \in Document :
       /\ w[uri] = text /\ \A u \in Uris \ {uri} : w[u] = GetIn(docs, u)
       /\ toClient' = Append(toClient, [kind |-> "diagnostics", uri |-> uri, about |-> text])
  /\ Method(m) \notin {"shutdown", "exit"} /\ Unanswered(n)
  /\ UNCHANGED <<exitCode, shutdownRequested>>

Passed(m, n, v, w) ==
  /\ w = v /\ Unanswered(n) /\ Method(m) # "shutdown"
  /\ exitCode' = IF Method(m) # "exit" THEN exitCode ELSE IF shutdownRequested THEN 0 ELSE 1
  /\ UNCHANGED <<docs, shutdownRequested, toClient>>

Replied(m, n, v, w) ==
  /\ w = v /\ RemembersShutdown(m)
  /\ \E e \in Abouts :
       /\ toClient' = Append(toClient, [kind |-> "answer", about |-> e,
                                       id |-> [type |-> "primitive", value |-> Ids[n]]])
       /\ IdType = "primitive" => \E p \in pending : p.number = n /\ p.expect = e
  /\ UNCHANGED <<docs, exitCode>>

LEMMA Served ==
  ASSUME Serve, toServer # << >>, editor # "gone", Distinct(docs), NEW m, m = Head(toServer),
         NEW n \in 1..MaxSends, NEW v \in Documents, NEW w \in Documents,
         \A uri \in Uris : StoreGet(uri) = v[uri], Written(pending, m, n, v, w)
  PROVE  Refused(m) \/ Stored(m, n, w) \/ Passed(m, n, v, w) \/ Replied(m, n, v, w)
<1>1. exitCode = Serving BY Dispatch
<1>2. \A u \in Uris : GetIn(docs, u) = v[u] BY StoreGetIn
<1>3. CASE Edits(m, v, w) /\ Unanswered(n)
  <2>1. CASE \E uri \in Uris, text \in Texts :
               m \in {OpenMessage(uri, text), ChangeMessage(uri, text)} /\ w = [v EXCEPT ![uri] = text]
    <3>1. PICK uri \in Uris, text \in Texts :
               m \in {OpenMessage(uri, text), ChangeMessage(uri, text)} /\ w = [v EXCEPT ![uri] = text]
      BY <2>1
    <3>2. /\ IF text \in {Empty, Garbled} THEN Stop(1) /\ UNCHANGED <<docs, toClient>>
             ELSE docs' = StoreSet(uri, text) /\ Publish(uri, text)
          /\ UNCHANGED shutdownRequested /\ Method(m) \notin {"shutdown", "exit"}
      BY <3>1, ServedText
    <3>3. CASE text \in {Empty, Garbled} BY <3>2, <3>3 DEF Refused, Stop
    <3>4. CASE text \notin {Empty, Garbled}
      <4>1. docs' = StoreSet(uri, text) BY <3>2, <3>4
      <4>2. Distinct(docs') /\ \A u : GetIn(docs', u) = IF u = uri THEN text ELSE GetIn(docs, u)
        BY <4>1, StoreSetOne
      <4>3. \A u \in Uris : w[u] = IF u = uri THEN text ELSE v[u] BY <3>1 DEF Documents
      <4>4. /\ toClient' = Append(toClient, [kind |-> "diagnostics", uri |-> uri, about |-> text])
            /\ UNCHANGED exitCode
        BY <3>2, <3>4 DEF Publish, Sends
      <4>5. text \in Document BY DEF Document
      <4> QED BY <1>2, <1>3, <3>2, <4>2, <4>3, <4>4, <4>5 DEF Stored
    <3> QED BY <3>3, <3>4
  <2>2. CASE \E uri \in Uris : m = CloseMessage(uri) /\ w = [v EXCEPT ![uri] = NoText]
    <3>1. PICK uri \in Uris : m = CloseMessage(uri) /\ w = [v EXCEPT ![uri] = NoText] BY <2>2
    <3>2. /\ docs' = StoreRemove(uri) /\ Publish(uri, NoText) /\ UNCHANGED shutdownRequested
          /\ Method(m) \notin {"shutdown", "exit"}
      BY <3>1, ServedClose
    <3>3. Distinct(docs') /\ \A u : GetIn(docs', u) = IF u = uri THEN NoText ELSE GetIn(docs, u)
      BY <3>2, StoreRemoveOne
    <3>4. \A u \in Uris : w[u] = IF u = uri THEN NoText ELSE v[u] BY <3>1 DEF Documents
    <3>5. /\ toClient' = Append(toClient, [kind |-> "diagnostics", uri |-> uri, about |-> NoText])
          /\ UNCHANGED exitCode
      BY <3>2 DEF Publish, Sends
    <3>6. NoText \in Document BY DEF Document
    <3> QED BY <1>2, <1>3, <3>2, <3>3, <3>4, <3>5, <3>6 DEF Stored
  <2> QED BY <1>3, <2>1, <2>2 DEF Edits
<1>4. CASE m \in Plain /\ w = v /\ Unanswered(n)
  <2>1. /\ UNCHANGED <<docs, shutdownRequested, toClient>> /\ Method(m) # "shutdown"
        /\ IF Method(m) = "exit" THEN Stop(IF shutdownRequested THEN 0 ELSE 1) ELSE UNCHANGED exitCode
    BY <1>4, ServedPlain
  <2> QED BY <1>4, <2>1 DEF Passed, Stop
<1>5. CASE w = v /\ \E e \in Abouts :
              /\ Requesting(m, n, v, e)
              /\ IdType = "primitive" => \E p \in pending : p.number = n /\ p.expect = e
  <2>1. PICK e \in Abouts :
              /\ Requesting(m, n, v, e)
              /\ IdType = "primitive" => \E p \in pending : p.number = n /\ p.expect = e
    BY <1>5
  <2>2. Respond(Token(1, IdType, Ids[n]), e) /\ UNCHANGED docs /\ RemembersShutdown(m)
    BY <2>1, ServedRequest
  <2>3. EchoedId(Token(1, IdType, Ids[n])) = [type |-> "primitive", value |-> Ids[n]] BY DEF EchoedId, Token
  <2>4. /\ toClient' = Append(toClient, [kind |-> "answer", about |-> e,
                                        id |-> [type |-> "primitive", value |-> Ids[n]]])
        /\ UNCHANGED exitCode
    BY <2>2, <2>3 DEF Respond, Sends
  <2> QED BY <1>5, <2>1, <2>2, <2>4 DEF Replied
<1> QED BY <1>3, <1>4, <1>5 DEF Written, Unanswered

-----------------------------------------------------------------------------
(* What the editor does *)

\* The last words that a message is.
Words(m) == {"shutdown", "exit"} \cap {Method(m)}

\* It has written m, its next message: a request, or something that has no answer.
Tells(m) ==
  /\ Edits(m, buffers, buffers') \/ (m \in Plain /\ buffers' = buffers)
  /\ Method(m) # "shutdown" /\ pending' = pending

Inquires(m) ==
  /\ Method(m) # "exit" /\ buffers' = buffers
  /\ \E e \in Abouts :
       /\ Requesting(m, sends + 1, buffers, e)
       /\ pending' = pending \cup {[number |-> sends + 1, expect |-> e,
                                    id |-> [type |-> IdType, value |-> Ids[sends + 1]]]}

Wrote(m) ==
  /\ Writes(m) /\ m \in Messages /\ buffers' \in Documents
  /\ lastWords' = lastWords \cup Words(m)
  /\ Tells(m) \/ Inquires(m)

LEMMA AboutsHold ==
  /\ \A v \in Documents, uri \in Uris : v[uri] \in Abouts
  /\ \A method : WithoutDocument(method) \in Abouts
  /\ NoText \in Abouts /\ "null" \in Abouts /\ "invalid position" \in Abouts /\ "invalid uri" \in Abouts
<1>1. \A v \in Documents, uri \in Uris : v[uri] \in Document BY DEF Documents
<1> QED BY <1>1 DEF Abouts, Document, WithoutDocument

LEMMA Wording ==
  /\ Words(NotJson) = {} /\ Words(Envelope(0, "initialized")) = {} /\ Words(Envelope(0, "exit")) = {"exit"}
  /\ \A uri \in Uris, text \in Texts : Words(OpenMessage(uri, text)) = {} /\ Words(ChangeMessage(uri, text)) = {}
  /\ \A uri \in Uris : Words(CloseMessage(uri)) = {}
  /\ \A n \in 1..MaxSends, method \in Methods : Method(Envelope(n, method)) = method
  /\ \A n \in 1..MaxSends, method \in Documented, uri \in Uris \cup {Garbled}, line \in {"primitive", "string"} :
       Words(AskMessage(n, method, uri, line)) = {}
<1>1. ASSUME NEW n \in 1..MaxSends, NEW method \in Methods PROVE Method(Envelope(n, method)) = method
  BY BareReads DEF AsksBare
<1>2. ASSUME NEW n \in 1..MaxSends, NEW method \in Documented, NEW uri \in Uris \cup {Garbled},
             NEW line \in {"primitive", "string"}
      PROVE  Words(AskMessage(n, method, uri, line)) = {}
  <2>1. Method(AskMessage(n, method, uri, line)) = method BY AskReads DEF AsksAbout
  <2> QED BY <2>1 DEF Words, Documented
<1>3. ASSUME NEW uri \in Uris, NEW text \in Texts
      PROVE  Words(OpenMessage(uri, text)) = {} /\ Words(ChangeMessage(uri, text)) = {}
  <2>1. Method(OpenMessage(uri, text)) = "textDocument/didOpen" BY OpenReads
  <2>2. Method(ChangeMessage(uri, text)) = "textDocument/didChange" BY ChangeReads
  <2> QED BY <2>1, <2>2 DEF Words
<1>4. ASSUME NEW uri \in Uris PROVE Words(CloseMessage(uri)) = {}
  <2>1. Method(CloseMessage(uri)) = "textDocument/didClose" BY CloseReads
  <2> QED BY <2>1 DEF Words
<1>5. /\ Words(NotJson) = {} /\ Words(Envelope(0, "initialized")) = {}
      /\ Words(Envelope(0, "exit")) = {"exit"}
  BY PlainReads DEF Words, NoString
<1> QED BY <1>1, <1>2, <1>3, <1>4, <1>5

LEMMA Editing ==
  ASSUME Edit, buffers \in Documents, sends \in Nat
  PROVE  \E m : Wrote(m)
<1>1. sends + 1 \in 1..MaxSends
  <2>1. sends < MaxSends BY DEF Edit, Open, Change, Close, AskAtNoLine, Ask, AskNothing, AskGarbled, WriteOther,
                              Shutdown, Exit, WritesRequest, Writes
  <2> QED BY <2>1, LspAssumption
<1>2. ASSUME NEW uri \in Uris, NEW text \in Texts, Open(uri, text) PROVE Wrote(OpenMessage(uri, text))
  <2> DEFINE m == OpenMessage(uri, text)
  <2>1. /\ Writes(m) /\ buffers' = [buffers EXCEPT ![uri] = text] /\ UNCHANGED <<pending, lastWords>>
    BY <1>2 DEF Open
  <2>2. m \in Messages BY DEF Messages
  <2>3. Words(m) = {} BY Wording
  <2> HIDE DEF m
  <2>4. Edits(m, buffers, buffers') BY <2>1 DEF Edits, m
  <2>5. buffers' \in Documents BY <2>1 DEF Documents, Document
  <2> QED BY <2>1, <2>2, <2>3, <2>4, <2>5 DEF Wrote, Tells, Words, m
<1>3. ASSUME NEW uri \in Uris, NEW text \in Texts, Change(uri, text) PROVE Wrote(ChangeMessage(uri, text))
  <2> DEFINE m == ChangeMessage(uri, text)
  <2>1. /\ Writes(m) /\ buffers' = [buffers EXCEPT ![uri] = text] /\ UNCHANGED <<pending, lastWords>>
    BY <1>3 DEF Change
  <2>2. m \in Messages BY DEF Messages
  <2>3. Words(m) = {} BY Wording
  <2> HIDE DEF m
  <2>4. Edits(m, buffers, buffers') BY <2>1 DEF Edits, m
  <2>5. buffers' \in Documents BY <2>1 DEF Documents, Document
  <2> QED BY <2>1, <2>2, <2>3, <2>4, <2>5 DEF Wrote, Tells, Words, m
<1>4. ASSUME NEW uri \in Uris, Close(uri) PROVE Wrote(CloseMessage(uri))
  <2> DEFINE m == CloseMessage(uri)
  <2>1. /\ Writes(m) /\ buffers' = [buffers EXCEPT ![uri] = NoText] /\ UNCHANGED <<pending, lastWords>>
    BY <1>4 DEF Close
  <2>2. m \in Messages BY DEF Messages
  <2>3. Words(m) = {} BY Wording
  <2> HIDE DEF m
  <2>4. Edits(m, buffers, buffers') BY <2>1 DEF Edits, m
  <2>5. buffers' \in Documents BY <2>1 DEF Documents, Document
  <2> QED BY <2>1, <2>2, <2>3, <2>4, <2>5 DEF Wrote, Tells, Words, m
<1>5. ASSUME NEW m \in Messages, NEW e \in Abouts, Requesting(m, sends + 1, buffers, e),
             WritesRequest(m, e), Method(m) # "exit", lastWords' = lastWords \cup Words(m)
      PROVE  Wrote(m)
  BY <1>5 DEF WritesRequest, NextId, Wrote, Inquires
<1>6. ASSUME NEW method \in Documented, NEW uri \in Uris \cup {Garbled}, NEW line \in {"primitive", "string"},
             NEW e \in Abouts, WritesRequest(AskMessage(NextId, method, uri, line), e), UNCHANGED lastWords,
             Requesting(AskMessage(NextId, method, uri, line), sends + 1, buffers, e)
      PROVE  \E m : Wrote(m)
  <2> DEFINE m == AskMessage(NextId, method, uri, line)
  <2>1. m \in Messages BY <1>1 DEF Messages, NextId
  <2>2. Words(m) = {} BY <1>1, Wording DEF NextId
  <2> HIDE DEF m
  <2>3. Method(m) # "exit" /\ lastWords' = lastWords \cup Words(m) BY <1>6, <2>2 DEF Words
  <2> QED BY <1>5, <1>6, <2>1, <2>3 DEF m
<1>7. ASSUME NEW method \in Asked, NEW uri \in Uris, Ask(method, uri) PROVE \E m : Wrote(m)
  <2>1. method \in Documented /\ buffers[uri] \in Abouts BY LspAssumption, AboutsHold
  <2>2. Requesting(AskMessage(NextId, method, uri, "primitive"), sends + 1, buffers, buffers[uri])
    BY <2>1 DEF Requesting, NextId
  <2> QED BY <1>6, <1>7, <2>1, <2>2 DEF Ask
<1>8. ASSUME NEW uri \in Uris, AskAtNoLine(uri) PROVE \E m : Wrote(m)
  <2> DEFINE e == IF buffers[uri] = NoText THEN NoText ELSE "invalid position"
  <2>1. "textDocument/hover" \in Documented /\ e \in Abouts BY AboutsHold DEF Documented
  <2>2. Requesting(AskMessage(NextId, "textDocument/hover", uri, "string"), sends + 1, buffers, e)
    BY DEF Requesting, NextId
  <2>3. WritesRequest(AskMessage(NextId, "textDocument/hover", uri, "string"), e) /\ UNCHANGED lastWords
    BY <1>8 DEF AskAtNoLine
  <2> HIDE DEF e
  <2> QED BY <1>6, <2>1, <2>2, <2>3
<1>9. ASSUME NEW method \in Documented, AskGarbled(method) PROVE \E m : Wrote(m)
  <2> DEFINE e == IF method = "textDocument/completion" THEN NoText ELSE "invalid uri"
  <2>1. e \in Abouts BY AboutsHold
  <2>2. Requesting(AskMessage(NextId, method, Garbled, "primitive"), sends + 1, buffers, e)
    BY DEF Requesting, NextId
  <2>3. WritesRequest(AskMessage(NextId, method, Garbled, "primitive"), e) /\ UNCHANGED lastWords
    BY <1>9 DEF AskGarbled
  <2> HIDE DEF e
  <2> QED BY <1>6, <2>1, <2>2, <2>3
<1>10. ASSUME NEW method \in Methods PROVE
       /\ Envelope(NextId, method) \in Messages /\ Method(Envelope(NextId, method)) = method
  <2>1. NextId \in 0..MaxSends BY <1>1 DEF NextId
  <2> QED BY <1>1, <2>1, Wording DEF Messages, NextId
<1>11. ASSUME NEW method \in Bare, AskNothing(method) PROVE \E m : Wrote(m)
  <2> DEFINE m == Envelope(NextId, method)
             e == WithoutDocument(method)
  <2>1. method \in Asking /\ method \in Methods /\ method \notin {"shutdown", "exit"}
    BY LspAssumption DEF Asking, Methods, Handled, Documented
  <2>2. m \in Messages /\ Method(m) = method BY <1>10, <2>1
  <2>3. e \in Abouts BY AboutsHold
  <2>4. WritesRequest(m, e) /\ UNCHANGED lastWords BY <1>11 DEF AskNothing
  <2>5. Requesting(m, sends + 1, buffers, e) BY <2>1 DEF Requesting, NextId
  <2> HIDE DEF m, e
  <2>6. Words(m) = {} BY <2>1, <2>2 DEF Words
  <2> QED BY <1>5, <2>1, <2>2, <2>3, <2>4, <2>5, <2>6
<1>12. ASSUME Shutdown PROVE \E m : Wrote(m)
  <2> DEFINE m == Envelope(NextId, "shutdown")
  <2>1. "shutdown" \in Methods BY DEF Methods, Handled
  <2>2. m \in Messages /\ Method(m) = "shutdown" BY <1>10, <2>1
  <2>3. WritesRequest(m, "null") /\ lastWords' = lastWords \cup {"shutdown"} BY <1>12 DEF Shutdown
  <2>4. Requesting(m, sends + 1, buffers, "null") BY DEF Requesting, NextId
  <2> HIDE DEF m
  <2>5. Words(m) = {"shutdown"} BY <2>2 DEF Words
  <2> QED BY <1>5, <2>2, <2>3, <2>4, <2>5, AboutsHold
<1>13. ASSUME NEW m \in Plain, Writes(m), UNCHANGED <<buffers, pending>>, lastWords' = lastWords \cup Words(m)
       PROVE  Wrote(m)
  <2>1. 0 \in 0..MaxSends /\ "initialized" \in Methods /\ "exit" \in Methods
    BY LspAssumption DEF Methods, Handled
  <2>2. m \in Messages BY <2>1 DEF Plain, Messages
  <2>3. Method(m) # "shutdown" BY PlainReads DEF Plain, NoString
  <2> QED BY <1>13, <2>2, <2>3 DEF Wrote, Tells
<1>14. ASSUME NEW message \in {NotJson, Envelope(0, "initialized")}, WriteOther(message) PROVE \E m : Wrote(m)
  <2>1. Words(message) = {} /\ message \in Plain BY Wording DEF Plain
  <2> QED BY <1>13, <1>14, <2>1 DEF WriteOther
<1>15. ASSUME Exit PROVE \E m : Wrote(m)
  <2> DEFINE m == Envelope(0, "exit")
  <2>1. Words(m) = {"exit"} /\ m \in Plain BY Wording DEF Plain
  <2>2. Writes(m) /\ lastWords' = lastWords \cup {"exit"} /\ UNCHANGED <<buffers, pending>> BY <1>15 DEF Exit
  <2> HIDE DEF m
  <2> QED BY <1>13, <2>1, <2>2
<1> QED BY <1>2, <1>3, <1>4, <1>7, <1>8, <1>9, <1>11, <1>12, <1>14, <1>15 DEF Edit

-----------------------------------------------------------------------------
(* The invariant is inductive *)

LEMMA Queues ==
  ASSUME NEW S, NEW s \in Seq(S)
  PROVE  /\ s # << >> => /\ Head(s) = s[1] /\ s[1] \in S /\ Len(s) >= 1
                         /\ Tail(s) \in Seq(S) /\ Len(Tail(s)) = Len(s) - 1
                         /\ \A i \in 1..Len(s) - 1 : Tail(s)[i] = s[i + 1]
                         /\ Front(s) \in Seq(S) /\ Len(Front(s)) = Len(s) - 1
                         /\ \A i \in 1..Len(s) - 1 : Front(s)[i] = s[i]
         /\ \A e \in S : /\ Append(s, e) \in Seq(S) /\ Len(Append(s, e)) = Len(s) + 1
                         /\ Append(s, e)[Len(s) + 1] = e
                         /\ \A i \in 1..Len(s) : Append(s, e)[i] = s[i]
<1>1. ASSUME s # << >>
      PROVE  /\ Head(s) = s[1] /\ s[1] \in S /\ Len(s) >= 1
             /\ Tail(s) \in Seq(S) /\ Len(Tail(s)) = Len(s) - 1
             /\ \A i \in 1..Len(s) - 1 : Tail(s)[i] = s[i + 1]
  <2>1. Len(s) >= 1 BY <1>1, EmptySeq
  <2> QED BY <1>1, <2>1
<1>2. ASSUME s # << >>
      PROVE  /\ Front(s) \in Seq(S) /\ Len(Front(s)) = Len(s) - 1
             /\ \A i \in 1..Len(s) - 1 : Front(s)[i] = s[i]
  <2>1. Len(s) \in Nat /\ Len(s) >= 1 BY <1>1, <1>2
  <2>2. Front(s) \in Seq(S) /\ Len(Front(s)) = Len(s) - 1 BY <2>1 DEF Front
  <2>3. \A i \in 1..Len(s) - 1 : Front(s)[i] = s[i] BY <2>1 DEF Front
  <2> QED BY <2>2, <2>3
<1> QED BY <1>1, <1>2

\* What the server has of the message that it takes.
LEMMA Taking ==
  ASSUME LspTypes, InStep, Serve, toServer # << >>, editor # "gone"
  PROVE  /\ Taken \in Nat /\ Taken + 1 \in 1..MaxSends /\ Taken' = Taken + 1
         /\ \E view \in [0..MaxSends -> Documents] :
              LET m == Head(toServer)
                  n == Taken + 1
              IN  /\ Linked(view)
                  /\ \/ Refused(m) \/ Stored(m, n, view[n])
                     \/ Passed(m, n, view[Taken], view[n]) \/ Replied(m, n, view[Taken], view[n])
<1>1. exitCode = Serving /\ toServer' = Tail(toServer) /\ sends' = sends BY Dispatch DEF editorVars
<1>2. toServer \in Seq(Messages) /\ sends \in 0..MaxSends /\ Len(toServer) <= sends /\ MaxSends \in Nat
  BY LspAssumption DEF LspTypes
<1>3. Len(toServer) >= 1 /\ Len(toServer) \in Nat /\ Len(Tail(toServer)) = Len(toServer) - 1
      /\ Head(toServer) = toServer[1]
  BY <1>2, Queues
<1>4. Taken \in Nat /\ Taken + 1 \in 1..MaxSends /\ Taken' = Taken + 1 BY <1>1, <1>2, <1>3 DEF Taken
<1>5. Distinct(docs) BY <1>1 DEF InStep, DocsOK, Distinct
<1>6. PICK view \in [0..MaxSends -> Documents] : Linked(view) BY <1>1 DEF InStep
<1>7. view[Taken] \in Documents /\ view[Taken + 1] \in Documents
  <2>1. Taken \in 0..MaxSends /\ Taken + 1 \in 0..MaxSends BY <1>2, <1>4
  <2> QED BY <2>1
<1>8. \A uri \in Uris : StoreGet(uri) = view[Taken][uri] BY <1>6 DEF Linked
<1>9. Written(pending, Head(toServer), Taken + 1, view[Taken], view[Taken + 1])
  <2>1. 1 \in 1..Len(toServer) /\ Taken + 1 - 1 = Taken BY <1>3, <1>4
  <2> QED BY <1>3, <1>6, <2>1 DEF Linked
<1>10. LET m == Head(toServer)
           n == Taken + 1
       IN  \/ Refused(m) \/ Stored(m, n, view[n])
           \/ Passed(m, n, view[Taken], view[n]) \/ Replied(m, n, view[Taken], view[n])
  BY <1>4, <1>5, <1>7, <1>8, <1>9, Served
<1> QED BY <1>4, <1>6, <1>10

LEMMA NothingToServe == Serve /\ toServer = << >> => EndOfInput
BY DEF Serve, ServeInitialize, ServeShutdown, ServeExit, ServeNotification, ServeRequest, ServeUnknown, PassOver,
       Takes

\* A server without an editor writes to nobody.
LEMMA ServedNobody ==
  ASSUME Serve, toServer # << >>, editor = "gone", shutdownRequested \in BOOLEAN
  PROVE  toClient' = toClient /\ exitCode' \in {0, 1, Serving} /\ shutdownRequested' \in BOOLEAN
<1> DEFINE m == Head(toServer)
           Closed == toClient' = toClient /\ exitCode' \in {1, Serving}
<1>1. exitCode = Serving BY Dispatch
<1>2. \A message : Sends(message) => Closed BY DEF Sends, Stop
<1>3. Quiet => Closed BY <1>1 DEF Quiet
<1>4. \A token, about : Respond(token, about) => Closed BY <1>2 DEF Respond
<1>5. \A token, about : RespondError(token, about) => Closed BY <1>4 DEF RespondError
<1>6. \A uri, text : Publish(uri, text) => Closed BY <1>2 DEF Publish
<1>7. Stop(1) /\ toClient' = toClient => Closed BY DEF Stop
<1> HIDE DEF Closed, m
<1>8. \A tokens, index : StoreAndPublish(tokens, index) => Closed BY <1>3, <1>6, <1>7 DEF StoreAndPublish
<1>9. \A tokens : DidOpen(tokens) => Closed BY <1>8 DEF DidOpen
<1>10. \A tokens : DidChange(tokens) => Closed BY <1>8 DEF DidChange
<1>11. \A tokens : DidClose(tokens) => Closed BY <1>3, <1>6, <1>7 DEF DidClose
<1>12. \A tokens, id : Completion(tokens, id) => Closed BY <1>4, <1>5 DEF Completion
<1>13. \A tokens, id : Hover(tokens, id) => Closed BY <1>4, <1>5 DEF Hover
<1>14. \A tokens, id : DocumentSymbol(tokens, id) => Closed BY <1>4, <1>5 DEF DocumentSymbol
<1>15. CASE ServeInitialize BY <1>3, <1>4, <1>15 DEF ServeInitialize, Closed
<1>16. CASE ServeShutdown BY <1>3, <1>4, <1>16 DEF ServeShutdown, Closed
<1>17. CASE ServeExit BY <1>17 DEF ServeExit, Stop
<1>18. CASE ServeNotification BY <1>9, <1>10, <1>11, <1>18 DEF ServeNotification, Closed
<1>19. CASE ServeRequest BY <1>3, <1>12, <1>13, <1>14, <1>19 DEF ServeRequest, Closed
<1>20. CASE ServeUnknown BY <1>3, <1>5, <1>20 DEF ServeUnknown, Closed
<1>21. CASE PassOver BY <1>1, <1>21 DEF PassOver, serverVars
<1>22. CASE EndOfInput BY <1>22 DEF EndOfInput
<1> QED BY <1>15, <1>16, <1>17, <1>18, <1>19, <1>20, <1>21, <1>22 DEF Serve

LEMMA TypesServe ==
  ASSUME LspTypes, InStep, Serve
  PROVE  LspTypes'
<1>1. CASE toServer = << >>
  <2>1. EndOfInput BY <1>1, NothingToServe
  <2> QED BY <2>1 DEF EndOfInput, Stop, editorVars, LspTypes
<1>2. CASE toServer # << >>
  <2>1. toServer' = Tail(toServer) /\ UNCHANGED editorVars BY <1>2, Dispatch
  <2>2. toServer' \in Seq(Messages) /\ Len(toServer') <= sends
    <3>1. toServer \in Seq(Messages) /\ Len(toServer) <= sends /\ sends \in Nat /\ Len(toServer) \in Nat
      BY LspAssumption DEF LspTypes
    <3>2. Tail(toServer) \in Seq(Messages) /\ Len(Tail(toServer)) = Len(toServer) - 1 BY <1>2, <3>1, Queues
    <3> QED BY <2>1, <3>1, <3>2
  <2>3. /\ toClient' \in Seq(Diagnostics \cup Replies)
        /\ exitCode' \in {0, 1, Serving} /\ shutdownRequested' \in BOOLEAN
    <3>1. toClient \in Seq(Diagnostics \cup Replies) /\ shutdownRequested \in BOOLEAN /\ exitCode \in {0, 1, Serving}
      BY DEF LspTypes
    <3>2. CASE editor = "gone" BY <1>2, <3>1, <3>2, ServedNobody
    <3>3. CASE editor # "gone"
      <4> DEFINE m == Head(toServer)
                 n == Taken + 1
      <4>1. PICK view \in [0..MaxSends -> Documents] :
               \/ Refused(m) \/ Stored(m, n, view[n])
               \/ Passed(m, n, view[Taken], view[n]) \/ Replied(m, n, view[Taken], view[n])
        BY <1>2, <3>3, Taking
      <4>2. n \in 1..MaxSends BY <1>2, <3>3, Taking
      <4> HIDE DEF m, n
      <4>3. CASE Refused(m) BY <3>1, <4>3 DEF Refused
      <4>4. CASE Stored(m, n, view[n])
        <5>1. PICK uri \in Uris, text \in Document :
                 toClient' = Append(toClient, [kind |-> "diagnostics", uri |-> uri, about |-> text])
          BY <4>4 DEF Stored
        <5>2. [kind |-> "diagnostics", uri |-> uri, about |-> text] \in Diagnostics \cup Replies BY DEF Diagnostics
        <5> QED BY <3>1, <4>4, <5>1, <5>2, Queues DEF Stored
      <4>5. CASE Passed(m, n, view[Taken], view[n]) BY <3>1, <4>5 DEF Passed
      <4>6. CASE Replied(m, n, view[Taken], view[n])
        <5>1. PICK e \in Abouts :
                 toClient' = Append(toClient, [kind |-> "answer", about |-> e,
                                               id |-> [type |-> "primitive", value |-> Ids[n]]])
          BY <4>6 DEF Replied
        <5>2. [kind |-> "answer", about |-> e, id |-> [type |-> "primitive", value |-> Ids[n]]]
                \in Diagnostics \cup Replies
          <6>1. Ids[n] \in Values BY <4>2, ValuesHold
          <6> QED BY <6>1 DEF Replies
        <5>3. shutdownRequested' \in BOOLEAN BY <3>1, <4>6 DEF Replied, RemembersShutdown
        <5>4. exitCode' = exitCode BY <4>6 DEF Replied
        <5> QED BY <3>1, <5>1, <5>2, <5>3, <5>4, Queues
      <4> QED BY <4>1, <4>3, <4>4, <4>5, <4>6
    <3> QED BY <3>2, <3>3
  <2> QED BY <2>1, <2>2, <2>3 DEF LspTypes, editorVars
<1> QED BY <1>1, <1>2

\* Displayed, for what a server sent and holds.
DisplayedIn(sent, held) ==
  \A uri \in Uris :
    /\ (\A i \in 1..Len(sent) : ~(sent[i].kind = "diagnostics" /\ sent[i].uri = uri)) => shown[uri] = GetIn(held, uri)
    /\ \A i \in 1..Len(sent) :
         /\ sent[i].kind = "diagnostics" /\ sent[i].uri = uri
         /\ \A k \in i + 1 .. Len(sent) : ~(sent[k].kind = "diagnostics" /\ sent[k].uri = uri)
         => sent[i].about = GetIn(held, uri)

LEMMA DisplayedInIs ==
  /\ Displayed <=> DisplayedIn(toClient, docs)
  /\ (shown' = shown) => (Displayed' <=> DisplayedIn(toClient', docs'))
BY DEF Displayed, DisplayedIn, Marks, StoreGet, Entries, GetIn

LEMMA DisplayedSends ==
  ASSUME NEW S, NEW sent \in Seq(S), NEW held, NEW held2, NEW message \in S, DisplayedIn(sent, held),
         \/ message.kind # "diagnostics" /\ held2 = held
         \/ /\ message.kind = "diagnostics" /\ message.about = GetIn(held2, message.uri)
            /\ \A u \in Uris : u # message.uri => GetIn(held2, u) = GetIn(held, u)
  PROVE  DisplayedIn(Append(sent, message), held2)
<1> DEFINE more == Append(sent, message)
           marks(s, i, u) == s[i].kind = "diagnostics" /\ s[i].uri = u
<1>1. /\ Len(sent) \in Nat /\ Len(more) = Len(sent) + 1 /\ more[Len(sent) + 1] = message
      /\ \A i \in 1..Len(sent) : more[i] = sent[i]
  BY Queues
<1> HIDE DEF more
<1> SUFFICES ASSUME NEW u \in Uris
             PROVE  /\ (\A i \in 1..Len(more) : ~marks(more, i, u)) => shown[u] = GetIn(held2, u)
                    /\ \A i \in 1..Len(more) :
                         marks(more, i, u) /\ (\A k \in i + 1 .. Len(more) : ~marks(more, k, u)) =>
                           more[i].about = GetIn(held2, u)
  BY DEF DisplayedIn, more
<1>2. /\ (\A i \in 1..Len(sent) : ~marks(sent, i, u)) => shown[u] = GetIn(held, u)
      /\ \A i \in 1..Len(sent) :
           marks(sent, i, u) /\ (\A k \in i + 1 .. Len(sent) : ~marks(sent, k, u)) =>
             sent[i].about = GetIn(held, u)
  BY DEF DisplayedIn
<1>3. CASE marks(more, Len(sent) + 1, u)
  <2>1. message.about = GetIn(held2, u) BY <1>1, <1>3
  <2>2. ASSUME NEW i \in 1..Len(more), \A k \in i + 1 .. Len(more) : ~marks(more, k, u) PROVE i = Len(sent) + 1
    <3>1. i <= Len(sent) => Len(sent) + 1 \in i + 1 .. Len(more) BY <1>1
    <3> HIDE DEF marks
    <3> QED BY <1>1, <1>3, <2>2, <3>1
  <2>3. Len(sent) + 1 \in 1..Len(more) BY <1>1
  <2> HIDE DEF marks
  <2> QED BY <1>1, <1>3, <2>1, <2>2, <2>3
<1>4. CASE ~marks(more, Len(sent) + 1, u)
  <2>1. GetIn(held2, u) = GetIn(held, u) BY <1>1, <1>4
  <2>2. \A i \in 1..Len(sent) : marks(more, i, u) <=> marks(sent, i, u) BY <1>1
  <2>3. \A i \in 1..Len(sent) : i \in 1..Len(more) /\ more[i] = sent[i] BY <1>1
  <2>4. \A i \in 1..Len(more) : marks(more, i, u) => i \in 1..Len(sent)
    <3>1. \A i \in 1..Len(more) : i \in 1..Len(sent) \/ i = Len(sent) + 1 BY <1>1
    <3> HIDE DEF marks
    <3> QED BY <1>4, <3>1
  <2>5. \A i \in 1..Len(sent) : \A k \in i + 1 .. Len(sent) : k \in i + 1 .. Len(more) /\ k \in 1..Len(sent)
    BY <1>1
  <2> HIDE DEF marks
  <2>6. (\A i \in 1..Len(more) : ~marks(more, i, u)) => shown[u] = GetIn(held2, u)
    BY <1>2, <2>1, <2>2, <2>3
  <2>7. ASSUME NEW i \in 1..Len(more), marks(more, i, u), \A k \in i + 1 .. Len(more) : ~marks(more, k, u)
        PROVE  more[i].about = GetIn(held2, u)
    <3>1. i \in 1..Len(sent) /\ marks(sent, i, u) BY <2>2, <2>4, <2>7
    <3>2. \A k \in i + 1 .. Len(sent) : ~marks(sent, k, u) BY <2>2, <2>5, <2>7, <3>1
    <3> QED BY <1>2, <2>1, <2>3, <3>1, <3>2
  <2> QED BY <2>6, <2>7
<1> QED BY <1>3, <1>4

\* What the pipe still leads to, after the server has taken a message.
LEMMA LinkedServe ==
  ASSUME LspTypes, NEW view \in [0..MaxSends -> Documents], Linked(view), toServer # << >>,
         toServer' = Tail(toServer), UNCHANGED editorVars, Taken \in Nat, Taken' = Taken + 1,
         \A u \in Uris : GetIn(docs', u) = view[Taken + 1][u]
  PROVE  Linked(view)'
<1>1. /\ toServer \in Seq(Messages) /\ Len(toServer') = Len(toServer) - 1 /\ Len(toServer) \in Nat
      /\ \A j \in 1..Len(toServer) - 1 : toServer'[j] = toServer[j + 1]
  BY Queues DEF LspTypes
<1>2. (view[sends])' = buffers' BY DEF Linked, editorVars
<1>3. \A uri \in Uris : (StoreGet(uri))' = view[Taken'][uri] BY DEF StoreGet, Entries, GetIn
<1>4. ASSUME NEW j \in 1..Len(toServer')
      PROVE  Written(pending', toServer'[j], Taken' + j, view[Taken' + j - 1], view[Taken' + j])
  <2>1. /\ j + 1 \in 1..Len(toServer) /\ toServer'[j] = toServer[j + 1]
        /\ Taken' + j = Taken + (j + 1) /\ Taken' + j - 1 = Taken + (j + 1) - 1
    BY <1>1
  <2>2. Written(pending, toServer[j + 1], Taken + (j + 1), view[Taken + (j + 1) - 1], view[Taken + (j + 1)])
    BY <2>1 DEF Linked
  <2>3. pending' = pending BY DEF editorVars
  <2> QED BY <2>1, <2>2, <2>3
<1> QED BY <1>2, <1>3, <1>4 DEF Linked

LEMMA InStepServe ==
  ASSUME LspTypes, InStep, Serve
  PROVE  InStep'
<1> SUFFICES ASSUME exitCode' = Serving, editor' # "gone"
             PROVE  DocsOK' /\ Displayed' /\ (\E view \in [0..MaxSends -> Documents] : Linked(view))'
  BY DEF InStep
<1>1. toServer # << >>
  <2>1. ~EndOfInput BY DEF EndOfInput, Stop, Serving
  <2> QED BY <2>1, NothingToServe
<1>2. exitCode = Serving /\ toServer' = Tail(toServer) /\ UNCHANGED editorVars BY <1>1, Dispatch
<1>3. editor # "gone" /\ shown' = shown BY <1>2 DEF editorVars
<1>4. DocsOK /\ Displayed BY <1>2, <1>3 DEF InStep
<1> DEFINE m == Head(toServer)
           n == Taken + 1
<1>5. PICK view \in [0..MaxSends -> Documents] :
         /\ Linked(view)
         /\ \/ Refused(m) \/ Stored(m, n, view[n])
            \/ Passed(m, n, view[Taken], view[n]) \/ Replied(m, n, view[Taken], view[n])
  BY <1>1, <1>3, Taking
<1>6. Taken \in Nat /\ n \in 1..MaxSends /\ Taken' = Taken + 1 BY <1>1, <1>3, Taking
<1>7. \A u \in Uris : GetIn(docs, u) = view[Taken][u] BY <1>5, StoreGetIn DEF Linked
<1>8. DisplayedIn(toClient, docs) BY <1>4, DisplayedInIs
<1>9. toClient \in Seq(Diagnostics \cup Replies) BY DEF LspTypes
<1> HIDE DEF m
<1>10. SUFFICES /\ Distinct(docs') /\ DisplayedIn(toClient', docs')
                /\ \A u \in Uris : GetIn(docs', u) = view[n][u]
  <2>1. ASSUME \A u \in Uris : GetIn(docs', u) = view[n][u] PROVE Linked(view)'
    BY <1>1, <1>2, <1>5, <1>6, <2>1, LinkedServe
  <2>2. ASSUME Distinct(docs') PROVE DocsOK' BY <2>2 DEF DocsOK, Distinct
  <2>3. ASSUME DisplayedIn(toClient', docs') PROVE Displayed' BY <1>3, <2>3, DisplayedInIs
  <2> QED BY <1>10, <2>1, <2>2, <2>3
<1>11. ~Refused(m) BY DEF Refused, Serving
<1>12. CASE Stored(m, n, view[n])
  <2>1. PICK uri \in Uris, text \in Document :
          /\ view[n][uri] = text /\ \A u \in Uris \ {uri} : view[n][u] = GetIn(docs, u)
          /\ toClient' = Append(toClient, [kind |-> "diagnostics", uri |-> uri, about |-> text])
    BY <1>12 DEF Stored
  <2>2. Distinct(docs') /\ \A u \in Uris : GetIn(docs', u) = view[n][u] BY <1>12 DEF Stored
  <2> DEFINE message == [kind |-> "diagnostics", uri |-> uri, about |-> text]
  <2>3. /\ message \in Diagnostics \cup Replies /\ message.kind = "diagnostics"
        /\ message.uri = uri /\ message.about = text
    BY DEF Diagnostics
  <2> HIDE DEF message
  <2>4. \A u \in Uris : u # message.uri => GetIn(docs', u) = GetIn(docs, u) BY <2>1, <2>2, <2>3
  <2>5. message.about = GetIn(docs', message.uri) BY <2>1, <2>2, <2>3
  <2>6. DisplayedIn(Append(toClient, message), docs') BY <1>8, <1>9, <2>3, <2>4, <2>5, DisplayedSends
  <2>7. toClient' = Append(toClient, message) BY <2>1 DEF message
  <2> QED BY <2>2, <2>6, <2>7
<1>13. CASE Passed(m, n, view[Taken], view[n])
  <2>1. docs' = docs /\ toClient' = toClient /\ view[n] = view[Taken] BY <1>13 DEF Passed
  <2> QED BY <1>4, <1>7, <1>8, <2>1 DEF DocsOK, Distinct
<1>14. CASE Replied(m, n, view[Taken], view[n])
  <2>1. docs' = docs /\ view[n] = view[Taken] BY <1>14 DEF Replied
  <2>2. PICK e \in Abouts :
          toClient' = Append(toClient, [kind |-> "answer", about |-> e,
                                        id |-> [type |-> "primitive", value |-> Ids[n]]])
    BY <1>14 DEF Replied
  <2> DEFINE message == [kind |-> "answer", about |-> e, id |-> [type |-> "primitive", value |-> Ids[n]]]
  <2>3. message \in Diagnostics \cup Replies /\ message.kind # "diagnostics"
    <3>1. Ids[n] \in Values BY <1>6, ValuesHold
    <3> QED BY <3>1 DEF Replies
  <2> HIDE DEF message
  <2>4. DisplayedIn(Append(toClient, message), docs) BY <1>8, <1>9, <2>3, DisplayedSends
  <2>5. toClient' = Append(toClient, message) BY <2>2 DEF message
  <2> QED BY <1>4, <1>7, <2>1, <2>4, <2>5 DEF DocsOK, Distinct
<1> QED BY <1>5, <1>11, <1>12, <1>13, <1>14

\* AnswersFit and InTurn, for what a server sent, the requests that wait for an answer
\* and how many messages it has taken.
AnswersIn(sent, i, p) == sent[i].kind = "answer" /\ sent[i].id = p.id
FitIn(sent, asked) ==
  \A i \in 1..Len(sent) : sent[i].kind = "answer" =>
    \E p \in asked :
      /\ AnswersIn(sent, i, p) /\ sent[i].about = p.expect
      /\ \A k \in 1..i - 1 : ~AnswersIn(sent, k, p)
      /\ \A q \in asked : q.number < p.number => \E k \in 1..i - 1 : AnswersIn(sent, k, q)
TurnIn(sent, asked, taken) ==
  \A p \in asked : p.number <= taken <=> \E k \in 1..Len(sent) : AnswersIn(sent, k, p)

LEMMA AnsweringIs ==
  ASSUME LspTypes, LspTypes'
  PROVE  /\ AnswersFit <=> (editor # "gone" => FitIn(toClient, pending))
         /\ AnswersFit' <=> (editor' # "gone" => FitIn(toClient', pending'))
         /\ InTurn <=> (exitCode = Serving => TurnIn(toClient, pending, Taken))
         /\ InTurn' <=> (exitCode' = Serving => TurnIn(toClient', pending', Taken'))
<1>1. DOMAIN toClient = 1..Len(toClient) /\ DOMAIN toClient' = 1..Len(toClient') BY DEF LspTypes
<1> QED BY <1>1 DEF AnswersFit, FitIn, InTurn, TurnIn, AnswersIn, Answers

Numbered(asked) ==
  /\ \A p \in asked : p.number \in Nat
  /\ \A p, q \in asked : p.id = q.id <=> p.number = q.number

LEMMA AppendsOther ==
  ASSUME NEW S, NEW sent \in Seq(S), NEW asked, NEW message \in S, message.kind # "answer"
  PROVE  /\ FitIn(sent, asked) => FitIn(Append(sent, message), asked)
         /\ \A taken : TurnIn(sent, asked, taken) => TurnIn(Append(sent, message), asked, taken)
<1> DEFINE more == Append(sent, message)
<1>1. /\ Len(sent) \in Nat /\ Len(more) = Len(sent) + 1 /\ more[Len(sent) + 1] = message
      /\ \A i \in 1..Len(sent) : more[i] = sent[i]
  BY Queues
<1> HIDE DEF more
<1>2. \A i \in 1..Len(more) : i \in 1..Len(sent) \/ i = Len(sent) + 1 BY <1>1
<1>3. \A i \in 1..Len(sent) : \A p : AnswersIn(more, i, p) <=> AnswersIn(sent, i, p) BY <1>1 DEF AnswersIn
<1>4. \A i \in 1..Len(more) : \A p : AnswersIn(more, i, p) => i \in 1..Len(sent) BY <1>1, <1>2 DEF AnswersIn
<1>5. \A i \in 1..Len(sent) : i \in 1..Len(more) BY <1>1
<1>6. ASSUME FitIn(sent, asked) PROVE FitIn(more, asked)
  <2> SUFFICES ASSUME NEW i \in 1..Len(more), more[i].kind = "answer"
               PROVE  \E p \in asked :
                        /\ AnswersIn(more, i, p) /\ more[i].about = p.expect
                        /\ \A k \in 1..i - 1 : ~AnswersIn(more, k, p)
                        /\ \A q \in asked : q.number < p.number => \E k \in 1..i - 1 : AnswersIn(more, k, q)
    BY DEF FitIn
  <2>1. i \in 1..Len(sent) /\ more[i] = sent[i] BY <1>1, <1>2
  <2>2. \A k \in 1..i - 1 : k \in 1..Len(sent) BY <2>1
  <2>3. PICK p \in asked :
          /\ AnswersIn(sent, i, p) /\ sent[i].about = p.expect
          /\ \A k \in 1..i - 1 : ~AnswersIn(sent, k, p)
          /\ \A q \in asked : q.number < p.number => \E k \in 1..i - 1 : AnswersIn(sent, k, q)
    BY <1>6, <2>1 DEF FitIn
  <2> QED BY <1>3, <2>1, <2>2, <2>3
<1>7. ASSUME NEW taken, TurnIn(sent, asked, taken) PROVE TurnIn(more, asked, taken)
  BY <1>3, <1>4, <1>5, <1>7 DEF TurnIn
<1> QED BY <1>6, <1>7 DEF more

LEMMA AppendsAnswer ==
  ASSUME NEW S, NEW sent \in Seq(S), NEW asked, NEW message \in S, NEW taken \in Nat,
         Numbered(asked), NEW p \in asked, p.number = taken + 1,
         message.kind = "answer", message.id = p.id, message.about = p.expect,
         FitIn(sent, asked), TurnIn(sent, asked, taken)
  PROVE  FitIn(Append(sent, message), asked) /\ TurnIn(Append(sent, message), asked, taken + 1)
<1> DEFINE more == Append(sent, message)
           last == Len(sent) + 1
<1>1. /\ Len(sent) \in Nat /\ Len(more) = last /\ more[last] = message
      /\ \A i \in 1..Len(sent) : more[i] = sent[i]
  BY Queues
<1> HIDE DEF more
<1>2. /\ \A i \in 1..Len(more) : i \in 1..Len(sent) \/ i = last
      /\ \A i \in 1..Len(sent) : i \in 1..Len(more)
      /\ last \in 1..Len(more) /\ last - 1 = Len(sent)
  BY <1>1
<1>3. \A i \in 1..Len(sent) : \A q : AnswersIn(more, i, q) <=> AnswersIn(sent, i, q) BY <1>1 DEF AnswersIn
<1>4. \A q \in asked : AnswersIn(more, last, q) => q.number = taken + 1
  BY <1>1 DEF AnswersIn, Numbered
<1>5. AnswersIn(more, last, p) BY <1>1 DEF AnswersIn
<1>6. \A q \in asked : q.number \in Nat /\ (q.number <= taken <=> \E k \in 1..Len(sent) : AnswersIn(sent, k, q))
  BY DEF TurnIn, Numbered
<1>7. TurnIn(more, asked, taken + 1)
  <2> SUFFICES ASSUME NEW q \in asked
               PROVE  q.number <= taken + 1 <=> \E k \in 1..Len(more) : AnswersIn(more, k, q)
    BY DEF TurnIn
  <2>1. CASE q.number <= taken
    <3>1. \E k \in 1..Len(more) : AnswersIn(more, k, q) BY <1>2, <1>3, <1>6, <2>1
    <3> QED BY <1>6, <2>1, <3>1
  <2>2. CASE q.number = taken + 1
    <3>1. ~(q.number <= taken) BY <2>2
    <3>2. AnswersIn(more, last, q)
      <4>1. q.id = message.id BY <2>2 DEF Numbered
      <4> QED BY <1>1, <4>1 DEF AnswersIn
    <3> QED BY <1>2, <2>2, <3>2
  <2>3. CASE q.number > taken + 1
    <3>1. ~(q.number <= taken) /\ q.number # taken + 1 BY <1>6, <2>3
    <3>2. \A k \in 1..Len(more) : ~AnswersIn(more, k, q) BY <1>2, <1>3, <1>4, <1>6, <3>1
    <3> QED BY <1>6, <2>3, <3>2
  <2> QED BY <1>6, <2>1, <2>2, <2>3
<1>8. FitIn(more, asked)
  <2> SUFFICES ASSUME NEW i \in 1..Len(more), more[i].kind = "answer"
               PROVE  \E r \in asked :
                        /\ AnswersIn(more, i, r) /\ more[i].about = r.expect
                        /\ \A k \in 1..i - 1 : ~AnswersIn(more, k, r)
                        /\ \A q \in asked : q.number < r.number => \E k \in 1..i - 1 : AnswersIn(more, k, q)
    BY DEF FitIn
  <2>1. CASE i \in 1..Len(sent)
    <3>1. \A k \in 1..i - 1 : k \in 1..Len(sent) BY <2>1
    <3>2. PICK r \in asked :
            /\ AnswersIn(sent, i, r) /\ sent[i].about = r.expect
            /\ \A k \in 1..i - 1 : ~AnswersIn(sent, k, r)
            /\ \A q \in asked : q.number < r.number => \E k \in 1..i - 1 : AnswersIn(sent, k, q)
      BY <1>1, <2>1 DEF FitIn
    <3> QED BY <1>1, <1>3, <2>1, <3>1, <3>2
  <2>2. CASE i = last
    <3>1. ~(p.number <= taken) /\ \A q \in asked : q.number < p.number => q.number <= taken BY <1>6
    <3>2. \A k \in 1..Len(sent) : ~AnswersIn(more, k, p) BY <1>3, <1>6, <3>1
    <3>3. \A q \in asked : q.number < p.number => \E k \in 1..Len(sent) : AnswersIn(more, k, q)
      BY <1>3, <1>6, <3>1
    <3>4. more[i].about = p.expect BY <1>1, <2>2
    <3> QED BY <1>2, <1>5, <2>2, <3>2, <3>3, <3>4
  <2> QED BY <1>2, <2>1, <2>2
<1> QED BY <1>7, <1>8 DEF more

\* The editor reads the first message, and an answer settles its request.
LEMMA TakesFirst ==
  ASSUME NEW S, NEW sent \in Seq(S), sent # << >>, NEW asked, NEW left,
         left = IF sent[1].kind = "answer" THEN {p \in asked : p.id # sent[1].id} ELSE asked
  PROVE  /\ FitIn(sent, asked) => FitIn(Tail(sent), left)
         /\ \A taken : TurnIn(sent, asked, taken) => TurnIn(Tail(sent), left, taken)
<1> DEFINE rest == Tail(sent)
<1>1. /\ Len(sent) \in Nat /\ Len(sent) >= 1 /\ Len(rest) = Len(sent) - 1
      /\ \A i \in 1..Len(rest) : rest[i] = sent[i + 1]
  BY Queues
<1> HIDE DEF rest
<1>2. \A i \in 1..Len(rest) : i + 1 \in 1..Len(sent) BY <1>1
<1>3. \A i \in 1..Len(sent) : i = 1 \/ i - 1 \in 1..Len(rest) BY <1>1
<1>4. \A i \in 1..Len(rest) : \A p : AnswersIn(rest, i, p) <=> AnswersIn(sent, i + 1, p) BY <1>1 DEF AnswersIn
<1>5. \A p \in asked : p \in left <=> ~AnswersIn(sent, 1, p) BY DEF AnswersIn
<1>6. left \subseteq asked OBVIOUS
<1>7. ASSUME FitIn(sent, asked) PROVE FitIn(rest, left)
  <2> SUFFICES ASSUME NEW i \in 1..Len(rest), rest[i].kind = "answer"
               PROVE  \E p \in left :
                        /\ AnswersIn(rest, i, p) /\ rest[i].about = p.expect
                        /\ \A k \in 1..i - 1 : ~AnswersIn(rest, k, p)
                        /\ \A q \in left : q.number < p.number => \E k \in 1..i - 1 : AnswersIn(rest, k, q)
    BY DEF FitIn
  <2>1. i + 1 \in 1..Len(sent) /\ rest[i] = sent[i + 1] /\ (i + 1) - 1 = i BY <1>1, <1>2
  <2>2. PICK p \in asked :
          /\ AnswersIn(sent, i + 1, p) /\ sent[i + 1].about = p.expect
          /\ \A k \in 1..i : ~AnswersIn(sent, k, p)
          /\ \A q \in asked : q.number < p.number => \E k \in 1..i : AnswersIn(sent, k, q)
    BY <1>7, <2>1 DEF FitIn
  <2>3. 1 \in 1..i BY <1>1
  <2>4. p \in left BY <1>5, <2>2, <2>3
  <2>5. \A k \in 1..i - 1 : k \in 1..Len(rest) /\ k + 1 \in 1..i BY <1>1
  <2>6. \A k \in 1..i - 1 : ~AnswersIn(rest, k, p) BY <1>4, <2>2, <2>5
  <2>7. ASSUME NEW q \in left, q.number < p.number PROVE \E k \in 1..i - 1 : AnswersIn(rest, k, q)
    <3>1. PICK k \in 1..i : AnswersIn(sent, k, q) BY <1>6, <2>2, <2>7
    <3>2. k # 1 BY <1>5, <1>6, <3>1
    <3>3. k - 1 \in 1..i - 1 /\ (k - 1) + 1 = k /\ k - 1 \in 1..Len(rest) BY <1>1, <3>2
    <3> QED BY <1>4, <3>1, <3>3
  <2> QED BY <1>4, <2>1, <2>2, <2>4, <2>6, <2>7
<1>8. ASSUME NEW taken, TurnIn(sent, asked, taken) PROVE TurnIn(rest, left, taken)
  <2> SUFFICES ASSUME NEW p \in left
               PROVE  p.number <= taken <=> \E k \in 1..Len(rest) : AnswersIn(rest, k, p)
    BY DEF TurnIn
  <2>1. p \in asked /\ ~AnswersIn(sent, 1, p) BY <1>5, <1>6
  <2>2. p.number <= taken <=> \E k \in 1..Len(sent) : AnswersIn(sent, k, p) BY <1>8, <2>1 DEF TurnIn
  <2>3. ASSUME NEW k \in 1..Len(sent), AnswersIn(sent, k, p) PROVE \E j \in 1..Len(rest) : AnswersIn(rest, j, p)
    <3>1. k - 1 \in 1..Len(rest) BY <1>3, <2>1, <2>3
    <3>2. (k - 1) + 1 = k OBVIOUS
    <3> QED BY <1>4, <2>3, <3>1, <3>2
  <2> QED BY <1>2, <1>4, <2>2, <2>3
<1> QED BY <1>7, <1>8 DEF rest

LEMMA PendingNumbered ==
  ASSUME LspTypes
  PROVE  Numbered(pending) /\ \A p \in pending : p.number \in 1..sends /\ p.id = [type |-> IdType, value |-> Ids[p.number]]
<1>1. sends \in 0..MaxSends /\ MaxSends \in Nat BY LspAssumption DEF LspTypes
<1>2. ASSUME NEW p \in pending
      PROVE  p.number \in 1..sends /\ p.number \in 1..MaxSends /\ p.id = [type |-> IdType, value |-> Ids[p.number]]
  <2>1. p \in Requested /\ p.number <= sends /\ p.id.value = Ids[p.number] BY DEF LspTypes
  <2>2. p.id \in [type : {IdType}, value : Values] /\ p.number \in 1..MaxSends BY <2>1 DEF Requested
  <2>3. p.id = [type |-> p.id.type, value |-> p.id.value] /\ p.id.type = IdType BY <2>2
  <2> QED BY <1>1, <2>1, <2>2, <2>3
<1>3. ASSUME NEW p \in pending, NEW q \in pending PROVE p.id = q.id <=> p.number = q.number
  <2>1. p.id.value = Ids[p.number] /\ q.id.value = Ids[q.number] BY DEF LspTypes
  <2>2. p.id = q.id => p.number = q.number BY <1>2, <2>1, LspAssumption
  <2> QED BY <1>2, <2>2
<1>4. ASSUME NEW p \in pending PROVE p.number \in Nat
  <2>1. p.number \in 1..sends BY <1>2
  <2> QED BY <1>1, <2>1
<1> QED BY <1>2, <1>3, <1>4 DEF Numbered

\* An answer is written for the request that is taken, whose turn it is.
LEMMA AnswersServe ==
  ASSUME LspTypes, LspTypes', InStep, AnswersInv, Serve
  PROVE  AnswersInv'
<1> SUFFICES ASSUME IdType = "primitive", editor' # "gone" PROVE InTurn' /\ AnswersFit' BY DEF AnswersInv
<1>1. CASE toServer = << >>
  <2>1. EndOfInput BY <1>1, NothingToServe
  <2>2. editor # "gone" /\ UNCHANGED <<editor, toClient, pending>> /\ exitCode' # Serving
    BY <2>1 DEF EndOfInput, Stop, Serving, editorVars
  <2>3. FitIn(toClient, pending) BY <2>2, AnsweringIs DEF AnswersInv
  <2> QED BY <2>2, <2>3, AnsweringIs
<1>2. CASE toServer # << >>
  <2>1. exitCode = Serving /\ UNCHANGED editorVars BY <1>2, Dispatch
  <2>2. editor # "gone" /\ pending' = pending /\ editor' = editor BY <2>1 DEF editorVars
  <2>3. FitIn(toClient, pending) /\ TurnIn(toClient, pending, Taken) BY <2>1, <2>2, AnsweringIs DEF AnswersInv
  <2> DEFINE m == Head(toServer)
             n == Taken + 1
  <2>4. PICK view \in [0..MaxSends -> Documents] :
          \/ Refused(m) \/ Stored(m, n, view[n])
          \/ Passed(m, n, view[Taken], view[n]) \/ Replied(m, n, view[Taken], view[n])
    BY <1>2, <2>2, Taking
  <2>5. Taken \in Nat /\ n \in 1..MaxSends /\ Taken' = n BY <1>2, <2>2, Taking
  <2>6. Numbered(pending) BY PendingNumbered
  <2>7. toClient \in Seq(Diagnostics \cup Replies) BY DEF LspTypes
  <2>8. ASSUME Unanswered(n), NEW sent, TurnIn(sent, pending, Taken) PROVE TurnIn(sent, pending, n)
    <3>1. \A p \in pending : p.number <= n <=> p.number <= Taken
      BY <2>5, <2>6, <2>8 DEF Unanswered, Numbered
    <3> QED BY <2>8, <3>1 DEF TurnIn
  <2> HIDE DEF m
  <2>9. SUFFICES FitIn(toClient', pending) /\ (exitCode' = Serving => TurnIn(toClient', pending, n))
    BY <2>2, <2>5, AnsweringIs
  <2>10. CASE Refused(m) BY <2>3, <2>10 DEF Refused, Serving
  <2>11. CASE Passed(m, n, view[Taken], view[n])
    <3>1. toClient' = toClient /\ Unanswered(n) BY <2>11 DEF Passed
    <3> HIDE DEF n
    <3> QED BY <2>3, <2>8, <3>1
  <2>12. CASE Stored(m, n, view[n])
    <3>1. PICK uri \in Uris, text \in Document :
            toClient' = Append(toClient, [kind |-> "diagnostics", uri |-> uri, about |-> text])
      BY <2>12 DEF Stored
    <3> DEFINE message == [kind |-> "diagnostics", uri |-> uri, about |-> text]
    <3>2. message \in Diagnostics \cup Replies /\ message.kind # "answer" BY DEF Diagnostics
    <3>3. Unanswered(n) BY <2>12 DEF Stored
    <3> HIDE DEF message
    <3>4. FitIn(Append(toClient, message), pending) /\ TurnIn(Append(toClient, message), pending, Taken)
      BY <2>3, <2>7, <3>2, AppendsOther
    <3>5. toClient' = Append(toClient, message) BY <3>1 DEF message
    <3> HIDE DEF n
    <3> QED BY <2>8, <3>3, <3>4, <3>5
  <2>13. CASE Replied(m, n, view[Taken], view[n])
    <3>1. PICK e \in Abouts :
            /\ toClient' = Append(toClient, [kind |-> "answer", about |-> e,
                                             id |-> [type |-> "primitive", value |-> Ids[n]]])
            /\ \E p \in pending : p.number = n /\ p.expect = e
      BY <2>13 DEF Replied
    <3>2. PICK p \in pending : p.number = n /\ p.expect = e BY <3>1
    <3> DEFINE message == [kind |-> "answer", about |-> e, id |-> [type |-> "primitive", value |-> Ids[n]]]
    <3>3. message \in Diagnostics \cup Replies
      <4>1. Ids[n] \in Values BY <2>5, ValuesHold
      <4> QED BY <4>1 DEF Replies
    <3>4. message.kind = "answer" /\ message.id = p.id /\ message.about = p.expect
      BY <3>2, PendingNumbered
    <3> HIDE DEF message
    <3>5. FitIn(Append(toClient, message), pending) /\ TurnIn(Append(toClient, message), pending, Taken + 1)
      BY <2>3, <2>5, <2>6, <2>7, <3>2, <3>3, <3>4, AppendsAnswer
    <3>6. toClient' = Append(toClient, message) BY <3>1 DEF message
    <3> QED BY <3>5, <3>6
  <2> QED BY <2>4, <2>10, <2>11, <2>12, <2>13
<1> QED BY <1>1, <1>2

-----------------------------------------------------------------------------
(* ... and what the editor does keeps it as well *)

LEMMA Writing ==
  ASSUME LspInv, NEW m, Wrote(m)
  PROVE  LspInv'
<1>1. /\ editor = "running" /\ editor' = "running" /\ sends' = sends + 1 /\ toServer' = Append(toServer, m)
      /\ UNCHANGED <<docs, shutdownRequested, exitCode, toClient, shown>>
      /\ m \in Messages /\ buffers' \in Documents /\ sends < MaxSends
  BY DEF Wrote, Writes, serverVars
<1>2. LspTypes /\ InStep /\ AnswersInv BY DEF LspInv
<1>3. /\ toServer \in Seq(Messages) /\ sends \in Nat /\ Len(toServer) \in Nat /\ Len(toServer) <= sends
      /\ MaxSends \in Nat /\ buffers \in Documents
  BY <1>2, LspAssumption DEF LspTypes
<1>4. /\ toServer' \in Seq(Messages) /\ Len(toServer') = Len(toServer) + 1
      /\ toServer'[Len(toServer) + 1] = m
      /\ \A j \in 1..Len(toServer) : toServer'[j] = toServer[j]
  BY <1>1, <1>3, Queues
<1>5. Taken' = Taken /\ Taken \in Nat /\ Taken + Len(toServer) = sends BY <1>1, <1>3, <1>4 DEF Taken
<1>6. sends + 1 \in 1..MaxSends BY <1>1, <1>3
<1>7. \/ pending' = pending
      \/ \E e \in Abouts : pending' = pending \cup {[number |-> sends + 1, expect |-> e,
                                                     id |-> [type |-> IdType, value |-> Ids[sends + 1]]]}
  BY DEF Wrote, Tells, Inquires
<1>8. \A p \in pending' : p \in pending \/ (p.number = sends + 1 /\ p.id = [type |-> IdType, value |-> Ids[sends + 1]])
  BY <1>7
<1>9. pending \subseteq pending' BY <1>7
<1>10. LspTypes'
  <2>1. pending' \subseteq Requested
    <3>1. Ids[sends + 1] \in Values BY <1>6, ValuesHold
    <3> QED BY <1>2, <1>6, <1>7, <3>1 DEF LspTypes, Requested
  <2>2. \A p \in pending' : p.number <= sends' /\ p.id.value = Ids[p.number]
    <3>1. \A p \in pending : p.number \in 1..sends /\ p.id.value = Ids[p.number]
      <4>1. \A p \in pending : p.number \in 1..sends BY <1>2, PendingNumbered
      <4> QED BY <1>2, <4>1 DEF LspTypes
    <3>2. \A p \in pending : p.number <= sends + 1 BY <1>3, <3>1
    <3> QED BY <1>1, <1>3, <1>8, <3>1, <3>2
  <2>3. lastWords' \subseteq {"shutdown", "exit"} BY <1>2 DEF LspTypes, Wrote, Words
  <2>4. sends' \in 0..MaxSends /\ Len(toServer') <= sends' BY <1>1, <1>3, <1>4
  <2> QED BY <1>1, <1>2, <1>4, <2>1, <2>2, <2>3, <2>4 DEF LspTypes
<1>11. InStep'
  <2> SUFFICES ASSUME exitCode = Serving
               PROVE  DocsOK' /\ Displayed' /\ (\E view \in [0..MaxSends -> Documents] : Linked(view))'
    BY <1>1 DEF InStep
  <2>1. DocsOK /\ Displayed BY <1>1, <1>2 DEF InStep
  <2>2. DocsOK' /\ Displayed'
    <3>1. DocsOK' BY <1>1, <2>1 DEF DocsOK
    <3>2. DisplayedIn(toClient, docs) BY <2>1, DisplayedInIs
    <3> QED BY <1>1, <3>1, <3>2, DisplayedInIs
  <2>3. PICK view \in [0..MaxSends -> Documents] : Linked(view) BY <1>1, <1>2 DEF InStep
  <2>4. PICK longer \in [0..MaxSends -> Documents] :
          longer[sends + 1] = buffers' /\ \A k \in 0..sends : longer[k] = view[k]
    <3> DEFINE more == [view EXCEPT ![sends + 1] = buffers']
    <3>1. more \in [0..MaxSends -> Documents] /\ more[sends + 1] = buffers' BY <1>1, <1>6
    <3>2. \A k \in 0..sends : more[k] = view[k] BY <1>1, <1>3
    <3> HIDE DEF more
    <3> QED BY <3>1, <3>2
  <2>5. \A k \in 0..sends : longer[k] = view[k] BY <2>4
  <2>6. ASSUME NEW uri \in Uris PROVE (StoreGet(uri))' = longer[Taken'][uri]
    <3>1. Taken \in 0..sends BY <1>3, <1>5
    <3>2. (StoreGet(uri))' = StoreGet(uri) BY <1>1 DEF StoreGet, Entries
    <3> QED BY <1>5, <2>3, <2>5, <3>1, <3>2 DEF Linked
  <2>7. ASSUME NEW j \in 1..Len(toServer)
        PROVE  Written(pending', toServer'[j], Taken' + j, longer[Taken' + j - 1], longer[Taken' + j])
    <3>1. Taken + j \in 0..sends /\ Taken + j - 1 \in 0..sends /\ Taken + j # sends + 1 BY <1>3, <1>5
    <3>2. Written(pending, toServer[j], Taken + j, longer[Taken + j - 1], longer[Taken + j])
      BY <2>3, <2>5, <3>1 DEF Linked
    <3>3. Written(pending', toServer[j], Taken + j, longer[Taken + j - 1], longer[Taken + j])
      BY <1>8, <1>9, <3>1, <3>2 DEF Written
    <3> QED BY <1>4, <1>5, <3>3
  <2>8. Written(pending', m, sends + 1, buffers, buffers')
    <3>1. CASE Tells(m)
      <4>1. \A p \in pending' : p.number # sends + 1
        <5>1. \A p \in pending : p.number \in 1..sends BY <1>2, PendingNumbered
        <5>2. \A p \in pending : p.number # sends + 1 BY <1>3, <5>1
        <5> QED BY <3>1, <5>2 DEF Tells
      <4> QED BY <3>1, <4>1 DEF Tells, Written
    <3>2. CASE Inquires(m)
      <4>1. PICK e \in Abouts :
              /\ Requesting(m, sends + 1, buffers, e)
              /\ pending' = pending \cup {[number |-> sends + 1, expect |-> e,
                                           id |-> [type |-> IdType, value |-> Ids[sends + 1]]]}
        BY <3>2 DEF Inquires
      <4> DEFINE asked == [number |-> sends + 1, expect |-> e, id |-> [type |-> IdType, value |-> Ids[sends + 1]]]
      <4>2. asked \in pending' /\ asked.number = sends + 1 /\ asked.expect = e BY <4>1
      <4> HIDE DEF asked
      <4> QED BY <3>2, <4>1, <4>2 DEF Inquires, Written
    <3> QED BY <3>1, <3>2 DEF Wrote
  <2>9. ASSUME NEW j \in 1..Len(toServer')
        PROVE  Written(pending', toServer'[j], Taken' + j, longer[Taken' + j - 1], longer[Taken' + j])
    <3>1. CASE j \in 1..Len(toServer) BY <2>7, <3>1
    <3>2. CASE j = Len(toServer) + 1
      <4>1. Taken' + j = sends + 1 /\ Taken' + j - 1 = sends /\ sends \in 0..sends BY <1>3, <1>5, <3>2
      <4>2. longer[sends] = buffers /\ longer[sends + 1] = buffers' BY <2>3, <2>4, <2>5, <4>1 DEF Linked
      <4> QED BY <1>4, <2>8, <3>2, <4>1, <4>2
    <3> QED BY <1>4, <3>1, <3>2
  <2>10. Linked(longer)' BY <1>1, <2>4, <2>6, <2>9 DEF Linked
  <2> QED BY <2>2, <2>4, <2>10
<1>12. AnswersInv'
  <2> SUFFICES ASSUME IdType = "primitive" PROVE InTurn' /\ AnswersFit' BY DEF AnswersInv
  <2>1. FitIn(toClient, pending) /\ (exitCode = Serving => TurnIn(toClient, pending, Taken))
    BY <1>1, <1>2, <1>10, AnsweringIs DEF AnswersInv
  <2>2. \A p \in pending : p.number \in 1..sends BY <1>2, PendingNumbered
  <2>3. FitIn(toClient, pending')
    <3>1. \A p \in pending, q \in pending' : q.number < p.number => q \in pending BY <1>3, <1>8, <2>2
    <3> QED BY <1>9, <2>1, <3>1 DEF FitIn
  <2>4. ASSUME exitCode = Serving PROVE TurnIn(toClient, pending', Taken)
    <3> SUFFICES ASSUME NEW p \in pending', p \notin pending
                 PROVE  p.number <= Taken <=> \E k \in 1..Len(toClient) : AnswersIn(toClient, k, p)
      BY <2>1, <2>4 DEF TurnIn
    <3>1. p.number = sends + 1 /\ p.id = [type |-> IdType, value |-> Ids[sends + 1]] BY <1>8
    <3>2. ~(p.number <= Taken) BY <1>3, <1>5, <3>1
    <3>3. ASSUME NEW k \in 1..Len(toClient), AnswersIn(toClient, k, p) PROVE FALSE
      <4>1. PICK q \in pending : AnswersIn(toClient, k, q) BY <2>1, <3>3 DEF FitIn, AnswersIn
      <4>2. q.id = p.id BY <3>3, <4>1 DEF AnswersIn
      <4>3. q.id.value = Ids[q.number] /\ q.number \in 1..sends BY <1>2, <2>2 DEF LspTypes
      <4>4. Ids[q.number] = Ids[sends + 1] BY <3>1, <4>2, <4>3
      <4>5. q.number \in 1..MaxSends /\ q.number # sends + 1 BY <1>3, <1>6, <4>3
      <4> QED BY <1>6, <4>4, <4>5, LspAssumption
    <3> QED BY <3>2, <3>3
  <2> QED BY <1>1, <1>2, <1>5, <1>10, <2>3, <2>4, AnsweringIs
<1> QED BY <1>10, <1>11, <1>12 DEF LspInv

LEMMA HangingUp ==
  ASSUME LspInv, HangUp
  PROVE  LspInv'
<1>1. /\ editor' \in {"closed", "gone"} /\ editor = "running"
      /\ UNCHANGED <<serverVars, toClient, buffers, shown, pending, lastWords, sends>>
      /\ \/ toServer' = toServer
         \/ editor' = "gone" /\ toServer # << >> /\ toServer' = Front(toServer)
  BY DEF HangUp
<1>2. LspTypes /\ InStep /\ AnswersInv BY DEF LspInv
<1>3. LspTypes'
  <2>1. toServer \in Seq(Messages) /\ Len(toServer) \in Nat /\ Len(toServer) <= sends /\ sends \in Nat
    BY <1>2, LspAssumption DEF LspTypes
  <2>2. toServer # << >> =>
          Front(toServer) \in Seq(Messages) /\ Len(Front(toServer)) = Len(toServer) - 1
    BY <2>1, Queues
  <2>3. toServer' \in Seq(Messages) /\ Len(toServer') <= sends BY <1>1, <2>1, <2>2
  <2> QED BY <1>1, <1>2, <2>3 DEF LspTypes, serverVars
<1>4. CASE editor' = "gone" BY <1>3, <1>4 DEF LspInv, InStep, AnswersInv
<1>5. CASE editor' # "gone"
  <2>1. toServer' = toServer /\ editor # "gone" BY <1>1, <1>5
  <2>2. UNCHANGED <<docs, exitCode, toClient, buffers, shown, pending, sends>> BY <1>1 DEF serverVars
  <2>3. Taken' = Taken BY <2>1, <2>2 DEF Taken
  <2>4. InStep'
    <3> SUFFICES ASSUME exitCode = Serving
                 PROVE  DocsOK' /\ Displayed' /\ (\E view \in [0..MaxSends -> Documents] : Linked(view))'
      BY <2>2 DEF InStep
    <3>1. DocsOK /\ Displayed BY <1>2, <2>1 DEF InStep
    <3>2. DocsOK' BY <2>2, <3>1 DEF DocsOK
    <3>3. Displayed' BY <2>2, <3>1, DisplayedInIs
    <3>4. PICK view \in [0..MaxSends -> Documents] : Linked(view) BY <1>2, <2>1 DEF InStep
    <3>5. \A uri : (StoreGet(uri))' = StoreGet(uri) BY <2>2 DEF StoreGet, Entries
    <3>6. Linked(view)' BY <2>1, <2>2, <2>3, <3>4, <3>5 DEF Linked
    <3> QED BY <3>2, <3>3, <3>6
  <2>5. AnswersInv'
    <3> SUFFICES ASSUME IdType = "primitive" PROVE InTurn' /\ AnswersFit' BY DEF AnswersInv
    <3>1. InTurn /\ AnswersFit BY <1>2, <2>1 DEF AnswersInv
    <3> QED BY <1>2, <1>3, <2>1, <2>2, <2>3, <3>1, AnsweringIs
  <2> QED BY <1>3, <2>4, <2>5 DEF LspInv
<1> QED BY <1>4, <1>5

LEMMA Receiving ==
  ASSUME LspInv, Receive
  PROVE  LspInv'
<1> DEFINE message == toClient[1]
<1>1. /\ editor # "gone" /\ toClient # << >> /\ toClient' = Tail(toClient)
      /\ UNCHANGED <<docs, shutdownRequested, exitCode, toServer, editor, buffers, lastWords, sends>>
  BY DEF Receive, serverVars
<1>2. LspTypes /\ InStep /\ AnswersInv BY DEF LspInv
<1>3. /\ toClient \in Seq(Diagnostics \cup Replies) /\ Head(toClient) = message
      /\ message \in Diagnostics \cup Replies
      /\ toClient' \in Seq(Diagnostics \cup Replies) /\ Len(toClient) \in Nat
      /\ Len(toClient') = Len(toClient) - 1 /\ Len(toClient) >= 1
      /\ \A i \in 1..Len(toClient) - 1 : toClient'[i] = toClient[i + 1]
  BY <1>1, <1>2, Queues DEF LspTypes
<1>4. (message.kind = "diagnostics" /\ message.uri \in Uris /\ message.about \in Document) \/ message.kind = "answer"
  BY <1>3 DEF Diagnostics, Replies
<1>5. /\ message.kind = "diagnostics" => shown' = [shown EXCEPT ![message.uri] = message.about] /\ pending' = pending
      /\ message.kind = "answer" => pending' = {p \in pending : p.id # message.id} /\ shown' = shown
  BY <1>3 DEF Receive
<1> HIDE DEF message
<1>6. pending' = IF message.kind = "answer" THEN {p \in pending : p.id # message.id} ELSE pending BY <1>4, <1>5
<1>7. pending' \subseteq pending BY <1>6
<1>8. Taken' = Taken BY <1>1 DEF Taken
<1>9. LspTypes'
  <2>1. shown' \in Documents BY <1>2, <1>4, <1>5 DEF LspTypes, Documents
  <2> QED BY <1>1, <1>2, <1>3, <1>7, <2>1 DEF LspTypes
<1>10. AnswersInv'
  <2> SUFFICES ASSUME IdType = "primitive" PROVE InTurn' /\ AnswersFit' BY DEF AnswersInv
  <2>1. FitIn(toClient, pending) /\ (exitCode = Serving => TurnIn(toClient, pending, Taken))
    BY <1>1, <1>2, <1>9, AnsweringIs DEF AnswersInv
  <2>2. /\ FitIn(toClient, pending) => FitIn(Tail(toClient), pending')
        /\ \A taken : TurnIn(toClient, pending, taken) => TurnIn(Tail(toClient), pending', taken)
    BY <1>1, <1>3, <1>6, TakesFirst DEF message
  <2> QED BY <1>1, <1>2, <1>8, <1>9, <2>1, <2>2, AnsweringIs
<1>11. InStep'
  <2> SUFFICES ASSUME exitCode = Serving
               PROVE  DocsOK' /\ Displayed' /\ (\E view \in [0..MaxSends -> Documents] : Linked(view))'
    BY <1>1 DEF InStep
  <2>1. DocsOK /\ Displayed BY <1>1, <1>2 DEF InStep
  <2>2. PICK view \in [0..MaxSends -> Documents] : Linked(view) BY <1>1, <1>2 DEF InStep
  <2>3. DocsOK' BY <1>1, <2>1 DEF DocsOK
  <2>4. \A uri : (StoreGet(uri))' = StoreGet(uri) BY <1>1 DEF StoreGet, Entries
  <2>5. Displayed'
    <3> SUFFICES ASSUME NEW u \in Uris
                 PROVE  /\ (\A i \in 1..Len(toClient') : ~Marks(i, u)') => shown'[u] = StoreGet(u)
                        /\ \A i \in 1..Len(toClient') :
                             Marks(i, u)' /\ (\A k \in i + 1 .. Len(toClient') : ~Marks(k, u)') =>
                               toClient'[i].about = StoreGet(u)
      BY <2>4 DEF Displayed
    <3>1. \A i \in 1..Len(toClient') : i + 1 \in 1..Len(toClient) /\ toClient'[i] = toClient[i + 1] BY <1>3
    <3>2. \A i \in 1..Len(toClient') : Marks(i, u)' <=> Marks(i + 1, u) BY <3>1 DEF Marks
    <3>3. /\ (\A i \in 1..Len(toClient) : ~Marks(i, u)) => shown[u] = StoreGet(u)
          /\ \A i \in 1..Len(toClient) :
               Marks(i, u) /\ (\A k \in i + 1 .. Len(toClient) : ~Marks(k, u)) =>
                 toClient[i].about = StoreGet(u)
      BY <2>1 DEF Displayed
    <3>4. ASSUME \A i \in 1..Len(toClient') : ~Marks(i, u)' PROVE shown'[u] = StoreGet(u)
      <4>1. \A k \in 2..Len(toClient) : ~Marks(k, u)
        <5> SUFFICES ASSUME NEW k \in 2..Len(toClient) PROVE ~Marks(k, u) OBVIOUS
        <5>1. k - 1 \in 1..Len(toClient') /\ (k - 1) + 1 = k BY <1>3
        <5> QED BY <3>2, <3>4, <5>1
      <4>2. CASE Marks(1, u)
        <5>1. 1 \in 1..Len(toClient) /\ \A k \in 1 + 1 .. Len(toClient) : k \in 2..Len(toClient) BY <1>3
        <5>2. message.about = StoreGet(u) BY <3>3, <4>1, <4>2, <5>1 DEF message
        <5>3. message.kind = "diagnostics" /\ message.uri = u BY <4>2 DEF Marks, message
        <5> QED BY <1>2, <1>5, <5>2, <5>3 DEF LspTypes, Documents
      <4>3. CASE ~Marks(1, u)
        <5>1. \A k \in 1..Len(toClient) : k = 1 \/ k \in 2..Len(toClient) BY <1>3
        <5>2. shown[u] = StoreGet(u) BY <3>3, <4>1, <4>3, <5>1
        <5>3. ~(message.kind = "diagnostics" /\ message.uri = u) BY <4>3 DEF Marks, message
        <5> QED BY <1>2, <1>4, <1>5, <5>2, <5>3 DEF LspTypes, Documents
      <4> QED BY <4>2, <4>3
    <3>5. ASSUME NEW i \in 1..Len(toClient'), Marks(i, u)', \A k \in i + 1 .. Len(toClient') : ~Marks(k, u)'
          PROVE  toClient'[i].about = StoreGet(u)
      <4>1. \A k \in (i + 1) + 1 .. Len(toClient) : ~Marks(k, u)
        <5> SUFFICES ASSUME NEW k \in (i + 1) + 1 .. Len(toClient) PROVE ~Marks(k, u) OBVIOUS
        <5>1. k - 1 \in i + 1 .. Len(toClient') /\ k - 1 \in 1..Len(toClient') /\ (k - 1) + 1 = k BY <1>3
        <5> QED BY <3>2, <3>5, <5>1
      <4> QED BY <3>1, <3>2, <3>3, <3>5, <4>1
    <3> QED BY <3>4, <3>5
  <2>6. ASSUME NEW j \in 1..Len(toServer)
        PROVE  Written(pending', toServer[j], Taken + j, view[Taken + j - 1], view[Taken + j])
    <3>1. Written(pending, toServer[j], Taken + j, view[Taken + j - 1], view[Taken + j]) BY <2>2 DEF Linked
    <3>2. IdType = "primitive" => \A p \in pending : p.number = Taken + j => p \in pending'
      <4> SUFFICES ASSUME IdType = "primitive", NEW p \in pending, p.number = Taken + j, p \notin pending' PROVE FALSE
        OBVIOUS
      <4>1. message.kind = "answer" /\ p.id = message.id BY <1>6
      <4>2. 1 \in 1..Len(toClient) /\ Answers(1, p) BY <1>3, <4>1 DEF Answers, message
      <4>3. p.number <= Taken BY <1>1, <1>2, <4>2 DEF AnswersInv, InTurn
      <4>4. Taken \in Int /\ j \in Nat /\ j >= 1
        <5>1. sends \in Nat /\ Len(toServer) \in Nat BY <1>2, LspAssumption DEF LspTypes
        <5> QED BY <5>1 DEF Taken
      <4> QED BY <4>3, <4>4
    <3> QED BY <1>7, <3>1, <3>2 DEF Written
  <2>7. Linked(view)' BY <1>1, <1>8, <2>2, <2>4, <2>6 DEF Linked
  <2> QED BY <2>3, <2>5, <2>7
<1> QED BY <1>9, <1>10, <1>11 DEF LspInv

LEMMA Beginning == LspInit => LspInv
<1> SUFFICES ASSUME LspInit PROVE LspInv OBVIOUS
<1>1. MaxSends \in Nat BY LspAssumption
<1>2. buffers \in Documents /\ shown \in Documents BY DEF LspInit, Documents, Document
<1>3. LspTypes
  <2>1. toServer \in Seq(Messages) /\ toClient \in Seq(Diagnostics \cup Replies) /\ Len(toServer) <= sends
    BY DEF LspInit
  <2>2. exitCode \in {0, 1, Serving} /\ sends \in 0..MaxSends /\ pending = {} BY <1>1 DEF LspInit
  <2> QED BY <1>2, <2>1, <2>2 DEF LspInit, LspTypes
<1> USE DEF LspInit
<1>4. InStep
  <2>1. DocsOK BY DEF DocsOK
  <2>2. \A uri : StoreGet(uri) = NoText
    <3>1. \A uri : Entries(uri) = {} BY DEF Entries
    <3> QED BY <3>1 DEF StoreGet
  <2>3. Displayed BY <2>2 DEF Displayed
  <2> DEFINE view == [n \in 0..MaxSends |-> buffers]
  <2>4. view \in [0..MaxSends -> Documents] BY <1>2
  <2>5. Linked(view)
    <3>1. Taken = 0 /\ 0 \in 0..MaxSends
      <4>1. Len(toServer) = 0 /\ sends = 0 OBVIOUS
      <4> HIDE DEF LspInit
      <4> QED BY <1>1, <4>1 DEF Taken
    <3>2. view[0] = buffers BY <3>1
    <3> HIDE DEF view
    <3> QED BY <2>2, <3>1, <3>2 DEF Linked
  <2> QED BY <2>1, <2>3, <2>4, <2>5 DEF InStep
<1>5. AnswersInv BY DEF AnswersInv, InTurn, AnswersFit
<1> QED BY <1>3, <1>4, <1>5 DEF LspInv

THEOREM LspInvariant == LspSpec => []LspInv
<1>1. LspInv /\ [LspNext]_lspVars => LspInv'
  <2> SUFFICES ASSUME LspInv, [LspNext]_lspVars PROVE LspInv' OBVIOUS
  <2>1. CASE Serve
    <3>1. LspTypes /\ InStep /\ AnswersInv BY DEF LspInv
    <3>2. LspTypes' BY <2>1, <3>1, TypesServe
    <3> QED BY <2>1, <3>1, <3>2, InStepServe, AnswersServe DEF LspInv
  <2>2. CASE Edit
    <3>1. buffers \in Documents /\ sends \in Nat BY LspAssumption DEF LspInv, LspTypes
    <3>2. PICK m : Wrote(m) BY <2>2, <3>1, Editing
    <3> QED BY <3>2, Writing
  <2>3. CASE HangUp BY <2>3, HangingUp
  <2>4. CASE Receive BY <2>4, Receiving
  <2>5. CASE UNCHANGED lspVars
    <3>1. UNCHANGED <<docs, shutdownRequested, exitCode, toServer, toClient, editor, buffers, shown, pending,
                      lastWords, sends>>
      BY <2>5 DEF lspVars, serverVars, editorVars
    <3>2. LspTypes' BY <3>1 DEF LspInv, LspTypes
    <3>3. Taken' = Taken BY <3>1 DEF Taken
    <3>4. AnswersInv' BY <3>1, <3>2, <3>3, AnsweringIs DEF LspInv, AnswersInv
    <3>5. InStep'
      <4> SUFFICES ASSUME exitCode = Serving, editor # "gone"
                   PROVE  DocsOK' /\ Displayed' /\ (\E view \in [0..MaxSends -> Documents] : Linked(view))'
        BY <3>1 DEF InStep
      <4>1. DocsOK /\ Displayed BY DEF LspInv, InStep
      <4>2. PICK view \in [0..MaxSends -> Documents] : Linked(view) BY DEF LspInv, InStep
      <4>3. \A uri : (StoreGet(uri))' = StoreGet(uri) BY <3>1 DEF StoreGet, Entries
      <4>4. Linked(view)' BY <3>1, <3>3, <4>2, <4>3 DEF Linked
      <4>5. Displayed' BY <3>1, <4>1, DisplayedInIs
      <4> QED BY <3>1, <4>1, <4>4, <4>5 DEF DocsOK
    <3> QED BY <3>2, <3>4, <3>5 DEF LspInv
  <2> QED BY <2>1, <2>2, <2>3, <2>4, <2>5 DEF LspNext
<1> QED BY <1>1, Beginning, PTL DEF LspSpec

-----------------------------------------------------------------------------
(* What follows *)

\* The store of the server, its one entry per document and the diagnostics that the
\* editor shows follow the editor's buffers, whatever the texts are (document_store_set,
\* document_store_remove and send_diagnostics).
THEOREM DocumentsInSync == LspSpec => []InSync
<1>1. LspInv => InSync
  <2> SUFFICES ASSUME LspInv, exitCode = Serving, editor = "running", toServer = << >>
               PROVE  /\ \A uri \in Uris : StoreGet(uri) = buffers[uri] /\ Cardinality(Entries(uri)) <= 1
                      /\ toClient = << >> => shown = buffers
    BY DEF InSync
  <2>1. LspTypes /\ DocsOK /\ Displayed BY DEF LspInv, InStep
  <2>2. PICK view \in [0..MaxSends -> Documents] : Linked(view) BY DEF LspInv, InStep
  <2>3. Taken = sends
    <3>1. Len(toServer) = 0 /\ sends \in Nat BY <2>1, LspAssumption DEF LspTypes
    <3> QED BY <3>1 DEF Taken
  <2>4. \A uri \in Uris : StoreGet(uri) = buffers[uri] BY <2>2, <2>3 DEF Linked
  <2>5. ASSUME NEW uri \in Uris PROVE Cardinality(Entries(uri)) <= 1
    <3>1. \A i, j \in Entries(uri) : i = j BY <2>1 DEF DocsOK, Entries
    <3>2. CASE Entries(uri) = {}
      <4>1. Cardinality(Entries(uri)) = 0 BY <3>2, FS_EmptySet
      <4> QED BY <4>1
    <3>3. CASE Entries(uri) # {}
      <4>1. PICK i : Entries(uri) = {i} BY <3>1, <3>3
      <4>2. Cardinality(Entries(uri)) = 1 BY <4>1, FS_Singleton
      <4> QED BY <4>2
    <3> QED BY <3>2, <3>3
  <2>6. ASSUME toClient = << >> PROVE shown = buffers
    <3>1. Len(toClient) = 0 BY <2>6
    <3>2. \A i \in 1..Len(toClient) : FALSE BY <3>1
    <3>3. \A uri \in Uris : shown[uri] = buffers[uri] BY <2>1, <2>4, <3>2 DEF Displayed
    <3>4. shown \in [Uris -> Document] /\ buffers \in [Uris -> Document] BY <2>1 DEF LspTypes, Documents
    <3> QED BY <3>3, <3>4
  <2> QED BY <2>4, <2>5, <2>6
<1> QED BY <1>1, LspInvariant, PTL

\* With ids that are numbers the answers are those of the requests, in their order and
\* about the texts that the editor had when it asked (main, handle_completion,
\* handle_hover and handle_document_symbol).  The id of a string loses its quotes.
THEOREM AnswersInOrder ==
  ASSUME IdType = "primitive"
  PROVE  LspSpec => []AnswersFit
<1>1. LspInv => AnswersFit BY DEF LspInv, AnswersInv, AnswersFit
<1> QED BY <1>1, LspInvariant, PTL

LEMMA WordsTaken ==
  ASSUME Serve
  PROVE  /\ shutdownRequested' = shutdownRequested \/ (toServer # << >> /\ Method(Head(toServer)) = "shutdown")
         /\ exitCode' = 0 => shutdownRequested /\ toServer # << >> /\ Method(Head(toServer)) = "exit"
<1> DEFINE Goes == exitCode' # 0
<1>1. exitCode # 0
  <2>1. exitCode = Serving BY Dispatch, NothingToServe DEF EndOfInput
  <2> QED BY <2>1 DEF Serving
<1>2. \A message : Sends(message) => Goes BY <1>1 DEF Sends, Stop
<1>3. Quiet => Goes BY <1>1 DEF Quiet
<1>4. \A token, about : Respond(token, about) => Goes BY <1>2 DEF Respond
<1>5. \A token, about : RespondError(token, about) => Goes BY <1>4 DEF RespondError
<1>6. \A uri, text : Publish(uri, text) => Goes BY <1>2 DEF Publish
<1>7. Stop(1) => Goes BY DEF Stop
<1> HIDE DEF Goes
<1>8. \A tokens, index : StoreAndPublish(tokens, index) => Goes BY <1>3, <1>6, <1>7 DEF StoreAndPublish
<1>9. \A tokens : DidOpen(tokens) => Goes BY <1>8 DEF DidOpen
<1>10. \A tokens : DidChange(tokens) => Goes BY <1>8 DEF DidChange
<1>11. \A tokens : DidClose(tokens) => Goes BY <1>3, <1>6, <1>7 DEF DidClose
<1>12. \A tokens, id : Completion(tokens, id) => Goes BY <1>4, <1>5 DEF Completion
<1>13. \A tokens, id : Hover(tokens, id) => Goes BY <1>4, <1>5 DEF Hover
<1>14. \A tokens, id : DocumentSymbol(tokens, id) => Goes BY <1>4, <1>5 DEF DocumentSymbol
<1>15. CASE ServeInitialize BY <1>3, <1>4, <1>15 DEF ServeInitialize, Goes
<1>16. CASE ServeShutdown BY <1>3, <1>4, <1>16 DEF ServeShutdown, Takes, Goes
<1>17. CASE ServeExit BY <1>17 DEF ServeExit, Takes, Stop
<1>18. CASE ServeNotification BY <1>9, <1>10, <1>11, <1>18 DEF ServeNotification, Goes
<1>19. CASE ServeRequest BY <1>3, <1>12, <1>13, <1>14, <1>19 DEF ServeRequest, Goes
<1>20. CASE ServeUnknown BY <1>3, <1>5, <1>20 DEF ServeUnknown, Goes
<1>21. CASE PassOver BY <1>1, <1>21 DEF PassOver, serverVars
<1>22. CASE EndOfInput BY <1>22 DEF EndOfInput, Stop
<1> QED BY <1>15, <1>16, <1>17, <1>18, <1>19, <1>20, <1>21, <1>22 DEF Serve

LEMMA LastWordsServe ==
  ASSUME LspInv, LastWordsOK, Texts \cap {Empty, Garbled} = {}, Serve
  PROVE  LastWordsOK'
<1> USE DEF Serving
<1>1. LspTypes /\ InStep BY DEF LspInv
<1>2. CASE toServer = << >>
  <2>1. EndOfInput BY <1>2, NothingToServe
  <2>2. exitCode = Serving /\ exitCode' = 1 /\ UNCHANGED <<shutdownRequested, toServer, editor, lastWords>>
        /\ editor # "running"
    BY <2>1 DEF EndOfInput, Stop, editorVars
  <2>3. editor # "gone" => "exit" \notin lastWords BY <1>2, <2>2 DEF LastWordsOK
  <2> QED BY <2>2, <2>3 DEF LastWordsOK, Says
<1>3. CASE toServer # << >>
  <2> DEFINE m == Head(toServer)
             n == Taken + 1
  <2>1. exitCode = Serving /\ toServer' = Tail(toServer) /\ UNCHANGED <<editor, lastWords>>
    BY <1>3, Dispatch DEF editorVars
  <2>2. /\ Len(toServer) \in Nat /\ Len(toServer) >= 1 /\ Len(toServer') = Len(toServer) - 1 /\ m = toServer[1]
        /\ \A j \in 1..Len(toServer') : toServer'[j] = toServer[j + 1]
    BY <1>1, <1>3, <2>1, Queues DEF LspTypes
  <2>3. \A j \in 1..Len(toServer') : j + 1 \in 1..Len(toServer) BY <2>2
  <2>4. /\ shutdownRequested' = shutdownRequested \/ Method(m) = "shutdown"
        /\ exitCode' = 0 => shutdownRequested /\ Method(m) = "exit"
    BY <1>3, WordsTaken
  <2>5. exitCode' \in {0, 1, Serving} BY <1>1, TypesServe DEF LspTypes
  <2> HIDE DEF m
  <2>6. 1 \in 1..Len(toServer) BY <2>2
  <2>7. \A word : Says(word)' => Says(word) BY <2>2, <2>3 DEF Says
  <2>8. \A word : Method(m) = word => Says(word) BY <2>2, <2>6 DEF Says
  <2>9. /\ Says("exit")' => "exit" \in lastWords'
        /\ Says("shutdown")' \/ shutdownRequested' => "shutdown" \in lastWords'
    BY <2>1, <2>4, <2>7, <2>8 DEF LastWordsOK
  <2>10. exitCode' = 0 => lastWords' = {"shutdown", "exit"}
    BY <1>1, <2>1, <2>4, <2>8 DEF LastWordsOK, LspTypes
  <2>11. CASE editor = "gone" BY <2>1, <2>9, <2>10, <2>11 DEF LastWordsOK
  <2>12. CASE editor # "gone"
    <3>1. PICK view \in [0..MaxSends -> Documents] :
             \/ Refused(m) \/ Stored(m, n, view[n])
             \/ Passed(m, n, view[Taken], view[n]) \/ Replied(m, n, view[Taken], view[n])
      BY <1>1, <1>3, <2>12, Taking DEF m
    <3>2. ~Refused(m) BY DEF Refused
    <3>3. /\ Method(m) = "exit" => exitCode' = IF shutdownRequested THEN 0 ELSE 1
          /\ Method(m) # "exit" => exitCode' = Serving
          /\ Method(m) = "shutdown" => shutdownRequested' = TRUE
      <4>1. CASE Stored(m, n, view[n]) BY <2>1, <4>1 DEF Stored
      <4>2. CASE Passed(m, n, view[Taken], view[n]) BY <2>1, <4>2 DEF Passed
      <4>3. CASE Replied(m, n, view[Taken], view[n]) BY <2>1, <4>3 DEF Replied, RemembersShutdown
      <4> QED BY <3>1, <3>2, <4>1, <4>2, <4>3
    <3>4. /\ "exit" \in lastWords => Method(toServer[Len(toServer)]) = "exit"
          /\ "shutdown" \in lastWords => shutdownRequested \/ Says("shutdown")
          /\ \A j \in 1..Len(toServer) : Method(toServer[j]) = "exit" => j = Len(toServer)
      BY <2>1, <2>12 DEF LastWordsOK
    <3>5. CASE exitCode' = Serving
      <4>1. Method(m) # "exit" BY <3>3, <3>5
      <4>2. ASSUME "exit" \in lastWords
            PROVE  toServer' # << >> /\ Method(toServer'[Len(toServer')]) = "exit"
        <5>1. Len(toServer) # 1 BY <2>2, <3>4, <4>1, <4>2
        <5>2. Len(toServer') \in 1..Len(toServer') /\ Len(toServer') + 1 = Len(toServer) BY <2>2, <5>1
        <5>3. toServer'[Len(toServer')] = toServer[Len(toServer)] BY <2>2, <5>2
        <5>4. toServer' # << >>
          <6>1. Len(toServer') >= 1 BY <2>2, <5>1
          <6> QED BY <6>1
        <5> QED BY <3>4, <4>2, <5>3, <5>4
      <4>3. ASSUME "shutdown" \in lastWords PROVE shutdownRequested' \/ Says("shutdown")'
        <5>1. CASE shutdownRequested BY <2>4, <3>3, <5>1
        <5>2. CASE Says("shutdown")
          <6>1. PICK j \in 1..Len(toServer) : Method(toServer[j]) = "shutdown" BY <5>2 DEF Says
          <6>2. CASE j = 1 BY <2>2, <3>3, <6>1, <6>2
          <6>3. CASE j # 1
            <7>1. j - 1 \in 1..Len(toServer') /\ (j - 1) + 1 = j BY <2>2, <6>3
            <7>2. Method(toServer'[j - 1]) = "shutdown" BY <2>2, <6>1, <7>1
            <7> QED BY <7>1, <7>2 DEF Says
          <6> QED BY <6>2, <6>3
        <5> QED BY <3>4, <4>3, <5>1, <5>2
      <4>4. ASSUME NEW j \in 1..Len(toServer'), Method(toServer'[j]) = "exit" PROVE j = Len(toServer')
        <5>1. j + 1 = Len(toServer) BY <2>2, <2>3, <3>4, <4>4
        <5> QED BY <2>2, <5>1
      <4> QED BY <2>1, <2>9, <3>5, <4>2, <4>3, <4>4 DEF LastWordsOK
    <3>6. CASE exitCode' = 1
      <4>1. Method(m) = "exit" /\ ~shutdownRequested BY <3>3, <3>6
      <4>2. Len(toServer) = 1 BY <2>2, <2>6, <3>4, <4>1
      <4>3. ~Says("shutdown")
        <5>1. \A j \in 1..Len(toServer) : j = 1 BY <4>2
        <5> QED BY <2>2, <4>1, <5>1 DEF Says
      <4>4. "shutdown" \notin lastWords /\ "exit" \in lastWords
        BY <2>8, <3>4, <4>1, <4>3 DEF LastWordsOK
      <4> QED BY <2>1, <2>9, <3>6, <4>4 DEF LastWordsOK
    <3>7. CASE exitCode' = 0 BY <2>9, <2>10, <3>7 DEF LastWordsOK
    <3> QED BY <2>5, <3>5, <3>6, <3>7
  <2> QED BY <2>11, <2>12
<1> QED BY <1>2, <1>3

LEMMA LastWordsWrote ==
  ASSUME LspInv, LastWordsOK, NEW m, Wrote(m)
  PROVE  LastWordsOK'
<1>1. /\ editor = "running" /\ editor' = "running" /\ toServer' = Append(toServer, m) /\ "exit" \notin lastWords
      /\ UNCHANGED <<shutdownRequested, exitCode>> /\ m \in Messages
      /\ lastWords' = lastWords \cup Words(m)
  BY DEF Wrote, Writes, serverVars
<1>2. /\ Len(toServer) \in Nat /\ Len(toServer') = Len(toServer) + 1 /\ toServer'[Len(toServer')] = m
      /\ \A j \in 1..Len(toServer) : toServer'[j] = toServer[j]
  <2>1. toServer \in Seq(Messages) BY DEF LspInv, LspTypes
  <2> QED BY <1>1, <2>1, Queues
<1>3. \A j \in 1..Len(toServer') : j = Len(toServer') \/ j \in 1..Len(toServer) BY <1>2
<1>4. Len(toServer') \in 1..Len(toServer') /\ \A j \in 1..Len(toServer) : j \in 1..Len(toServer') BY <1>2
<1>5. \A word : Says(word)' <=> Says(word) \/ Method(m) = word BY <1>2, <1>3, <1>4 DEF Says
<1>6. \A word \in {"shutdown", "exit"} : word \in lastWords' <=> word \in lastWords \/ Method(m) = word
  BY <1>1 DEF Words
<1>7. exitCode # 0 /\ ~(exitCode = 1) BY <1>1 DEF LastWordsOK
<1>8. ~Says("exit") BY <1>1 DEF LastWordsOK
<1>9. \A j \in 1..Len(toServer') : Method(toServer'[j]) = "exit" => j = Len(toServer')
  BY <1>2, <1>3, <1>8 DEF Says
<1>10. "exit" \in lastWords' => toServer' # << >> /\ Method(toServer'[Len(toServer')]) = "exit"
  <2>1. toServer' # << >>
    <3>1. Len(toServer') >= 1 BY <1>2
    <3> QED BY <3>1
  <2> QED BY <1>1, <1>2, <1>6, <2>1
<1>11. /\ Says("exit")' => "exit" \in lastWords'
       /\ Says("shutdown")' \/ shutdownRequested' => "shutdown" \in lastWords'
       /\ exitCode = Serving => ("shutdown" \in lastWords' => shutdownRequested' \/ Says("shutdown")')
  BY <1>1, <1>5, <1>6 DEF LastWordsOK
<1> QED BY <1>1, <1>7, <1>9, <1>10, <1>11 DEF LastWordsOK

LEMMA LastWordsHangUp ==
  ASSUME LspInv, LastWordsOK, HangUp
  PROVE  LastWordsOK'
<1>1. /\ editor' \in {"closed", "gone"} /\ editor = "running"
      /\ UNCHANGED <<shutdownRequested, exitCode, lastWords>>
      /\ \/ toServer' = toServer
         \/ editor' = "gone" /\ toServer # << >> /\ toServer' = Front(toServer)
  BY DEF HangUp, serverVars
<1>2. CASE toServer' = toServer BY <1>1, <1>2 DEF LastWordsOK, Says
<1>3. CASE editor' = "gone" /\ toServer # << >> /\ toServer' = Front(toServer)
  <2>1. toServer \in Seq(Messages) BY DEF LspInv, LspTypes
  <2>2. /\ Len(toServer) \in Nat /\ Len(toServer) >= 1 /\ Len(toServer') = Len(toServer) - 1
        /\ \A j \in 1..Len(toServer) - 1 : toServer'[j] = toServer[j]
    <3>1. Len(toServer) \in Nat /\ Len(toServer) >= 1 BY <1>3, <2>1, Queues
    <3> QED BY <1>3, <2>1, <3>1, Queues
  <2>3. \A word : Says(word)' => Says(word)
    <3>1. \A j \in 1..Len(toServer') : j \in 1..Len(toServer) /\ toServer'[j] = toServer[j] BY <2>2
    <3> QED BY <3>1 DEF Says
  <2> QED BY <1>1, <1>3, <2>3 DEF LastWordsOK
<1> QED BY <1>1, <1>2, <1>3

THEOREM LastWords ==
  ASSUME Texts \cap {Empty, Garbled} = {}
  PROVE  LspSpec => []LastWordsOK
<1>1. LspInit => LastWordsOK
  <2> SUFFICES ASSUME LspInit PROVE LastWordsOK OBVIOUS
  <2>1. toServer = << >> /\ shutdownRequested = FALSE /\ exitCode = Serving /\ lastWords = {} BY DEF LspInit
  <2>2. \A j \in 1..Len(toServer) : FALSE
    <3>1. Len(toServer) = 0 BY <2>1
    <3> QED BY <3>1
  <2> QED BY <2>1, <2>2 DEF LastWordsOK, Says, Serving
<1>2. LspInv /\ LastWordsOK /\ [LspNext]_lspVars => LastWordsOK'
  <2> SUFFICES ASSUME LspInv, LastWordsOK, [LspNext]_lspVars PROVE LastWordsOK' OBVIOUS
  <2>1. CASE Serve BY <2>1, LastWordsServe
  <2>2. CASE Edit
    <3>1. buffers \in Documents /\ sends \in Nat BY LspAssumption DEF LspInv, LspTypes
    <3>2. PICK m : Wrote(m) BY <2>2, <3>1, Editing
    <3> QED BY <3>2, LastWordsWrote
  <2>3. CASE HangUp BY <2>3, LastWordsHangUp
  <2>4. CASE Receive BY <2>4 DEF Receive, serverVars, LastWordsOK, Says
  <2>5. CASE UNCHANGED lspVars BY <2>5 DEF lspVars, serverVars, editorVars, LastWordsOK, Says
  <2> QED BY <2>1, <2>2, <2>3, <2>4, <2>5 DEF LspNext
<1> QED BY <1>1, <1>2, LspInvariant, PTL DEF LspSpec

\* The exit code of the server tells how its session ended (the loop of main), with
\* documents whose texts json_token_to_string hands over.
THEOREM SessionEnds ==
  ASSUME Texts \cap {Empty, Garbled} = {}
  PROVE  LspSpec => []ExitCodeTells
<1>1. LastWordsOK => ExitCodeTells BY DEF LastWordsOK, ExitCodeTells
<1> QED BY <1>1, LastWords, PTL

\* It serves until then.  An empty document ends it before (json_token_to_string).
THEOREM ServesReadableTexts ==
  ASSUME Texts \cap {Empty, Garbled} = {}
  PROVE  LspSpec => []ServesEveryText
<1>1. LspInv /\ LastWordsOK => ServesEveryText BY DEF LspInv, LspTypes, LastWordsOK, ServesEveryText
<1> QED BY <1>1, LspInvariant, LastWords, PTL
=============================================================================
