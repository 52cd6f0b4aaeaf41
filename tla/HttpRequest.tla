---------------------------- MODULE HttpRequest ----------------------------
(***************************************************************************)
(* A connection from accept to close: the receive buffer on the thread's   *)
(* stack (server/s_thread.c), the parser of http/request and the response  *)
(* of http/response.  What the broker answers comes from outside: Broker   *)
(* models it, and the mutex around it.                                     *)
(*                                                                         *)
(* A text is a sequence of cells: a word, a separator or a parameter name  *)
(* with its "=" is one cell.  Threads are joinable and nobody joins them,  *)
(* so the stack of one that has ended is never given out again: the buffer *)
(* of every thread is memory nobody has written yet, all NUL.              *)
(*                                                                         *)
(* A definition "Bug: ..." is no part of the model: it is what the         *)
(* definition after it would be if the code had that bug.                  *)
(***************************************************************************)
EXTENDS Integers, Sequences

CONSTANTS
  Thread,      \* bound: threads alive at a time
  Cell,        \* what texts are made of
  Message,     \* what clients send, see IsMessage
  NumberOf,    \* the values that are numerals, and their numbers
  BufferSize,  \* CLIENT_MESSAGE_SIZE, in cells
  Behind,      \* the texts that may stand behind the buffer, up to a NUL
  Cuts,        \* bound: the lengths a text can have when recv returns part of it
  JsonLength   \* lengths of the JSON text of an answer

NUL == "0"
Separators == {"&", " ", "\n"}
Keys == {"type=", "queue=", "data=", "index="}

\* Request_parse looks for type and queue always, for one more depending on the method.
KeysOf(method) ==
  CASE method = <<"POST">> -> {"type=", "queue=", "data="}
    [] method = <<"GET">>  -> {"type=", "queue=", "index="}
    [] OTHER               -> {"type=", "queue="}

\* The parameter p stands in the text: its name is the cell p.at, its value the cells behind
\* it, up to a separator or the end of the text.
StandsIn(p, text) ==
  /\ p.at \in DOMAIN text /\ text[p.at] = p.key
  /\ p.value # <<>> /\ p.at + Len(p.value) <= Len(text)
  /\ \A k \in DOMAIN p.value : text[p.at + k] = p.value[k] /\ p.value[k] \notin Separators \cup {NUL}
  /\ p.at + Len(p.value) < Len(text) => text[p.at + Len(p.value) + 1] \in Separators

ASSUME CellAssumption ==
  {NUL, "GET", "POST"} \cup Separators \cup Keys \subseteq Cell
\* What clients send: any text, of any length, and the parameters that are meant by it, if
\* it is a request: a method, a space, and parameters of that method anywhere behind.
IsMessage(m) ==
  /\ m = [text |-> m.text, params |-> m.params]
  /\ m.text \in Seq(Cell)
  /\ m.params \subseteq [key: Keys, value: Seq(Cell), at: Nat]
  /\ m.params # {} => Len(m.text) > 2 /\ m.text[1] \notin {" ", NUL} /\ m.text[2] = " "
  /\ \A p \in m.params : StandsIn(p, m.text) /\ p.key \in KeysOf(<<m.text[1]>>)

ASSUME MessageAssumption == \A m \in Message : IsMessage(m)
ASSUME SizeAssumption == BufferSize \in Nat \ {0} /\ Cuts \subseteq Nat /\ JsonLength \subseteq Nat
ASSUME BehindAssumption ==
  \A tail \in Behind : tail \in Seq(Cell) /\ \A i \in DOMAIN tail : tail[i] # NUL
ASSUME NumberAssumption == NumberOf \in [DOMAIN NumberOf -> Nat]

VARIABLES
  pc,      \* per thread, its next step, "idle" if there is no such thread
  buffer,  \* per thread, the local msg of broker_thread
  client,  \* per thread, what the client of its connection sends
  got,     \* per thread, how many cells recv has put in the buffer
  req,     \* per thread, the parsed request
  res      \* per thread, the response

vars == <<pc, buffer, client, got, req, res>>

Silence == [text |-> <<>>, params |-> {}]

\* The buffer on a stack nobody has used.
Fresh == [i \in 1 .. BufferSize |-> NUL]

\* A request is its method and its pairs of parameter and value, NULL when the method is.
NullRequest == [method |-> <<>>, body |-> {}]

\* A response: the statuses set one after the other, the body and the text put together.
NoResponse == [statuses |-> <<>>, body |-> <<>>, text |-> <<>>]

Init ==
  /\ pc = [s \in Thread |-> "idle"]
  /\ buffer = [s \in Thread |-> Fresh]
  /\ client = [s \in Thread |-> Silence]
  /\ got = [s \in Thread |-> 0]
  /\ req = [s \in Thread |-> NullRequest]
  /\ res = [s \in Thread |-> NoResponse]

\* The process ends and is started again.
Die ==
  /\ pc' = [s \in Thread |-> "idle"]
  /\ buffer' = [s \in Thread |-> Fresh]
  /\ client' = [s \in Thread |-> Silence]
  /\ got' = [s \in Thread |-> 0]
  /\ req' = [s \in Thread |-> NullRequest]
  /\ res' = [s \in Thread |-> NoResponse]

Goto(s, step) == pc' = [pc EXCEPT ![s] = step]
-----------------------------------------------------------------------------
(* Parsing                                                                  *)

\* How many cells there are before the first of these.
Before(cells, text) ==
  CHOOSE n \in 0 .. Len(text) - 1 : text[n + 1] \in cells /\ \A k \in 1 .. n : text[k] \notin cells

\* The C string in a buffer: what is before the first NUL; when recv has filled the buffer
\* without one, it goes on with whatever stands behind the buffer.
Strings(b) ==
  IF \E i \in DOMAIN b : b[i] = NUL THEN {SubSeq(b, 1, Before({NUL}, b))}
  ELSE {b \o tail : tail \in Behind}

BeginsWithSpace(text) == text # <<>> /\ text[1] = " "

\* What Request_extract_method copies, up to the first space; strcmp reads it up to a NUL.
Method(text) ==
  IF \E i \in DOMAIN text : text[i] = " " THEN SubSeq(text, 1, Before({" "}, text)) ELSE text

\* How many cells from i on are no separators.
Run(text, i) ==
  CHOOSE n \in 0 .. Len(text) - i + 1 :
    /\ i + n <= Len(text) => text[i + n] \in Separators
    /\ \A k \in i .. i + n - 1 : text[k] \notin Separators

\* Bug: the last place where the parameter's name occurs.
ValueOfLast(text, key) ==
  IF \A i \in DOMAIN text : text[i] # key THEN <<>>
  ELSE LET at == CHOOSE i \in DOMAIN text : /\ text[i] = key
                                           /\ \A j \in i + 1 .. Len(text) : text[j] # key
       IN  SubSeq(text, at + 1, at + Run(text, at + 1))

\* The second group of the first match of (key=)([^&[:space:]]* ); NULL when there is no
\* match or the group is empty.
ValueOf(text, key) ==
  IF \A i \in DOMAIN text : text[i] # key THEN <<>>
  ELSE LET at == CHOOSE i \in DOMAIN text : text[i] = key /\ \A j \in 1 .. i - 1 : text[j] # key
       IN  SubSeq(text, at + 1, at + Run(text, at + 1))

\* The pairs RequestBody_add is called with; each key once, so their order does not matter.
Pairs(text, keys) ==
  {pair \in {[key |-> key, value |-> ValueOf(text, key)] : key \in keys} : pair.value # <<>>}

\* RequestBody_get.
GetValue(body, key) ==
  IF \E pair \in body : pair.key = key THEN (CHOOSE pair \in body : pair.key = key).value
  ELSE <<>>

\* atoi, cut to an unsigned short.
IndexOf(value) ==
  IF value \in DOMAIN NumberOf THEN NumberOf[value] % 2^16 ELSE 0

\* The broker_request Response_get_response makes of a request; NULL is <<>>.
BrokerRequest(r) ==
  [type      |-> GetValue(r.body, "type="),
   queueName |-> GetValue(r.body, "queue="),
   index     |-> IndexOf(GetValue(r.body, "index=")),
   data      |-> GetValue(r.body, "data=")]
-----------------------------------------------------------------------------
(* Answering                                                                *)

\* The texts of a response are sequences of pieces, of which only the length counts and
\* whether it is a newline.
Piece(name, length) == [name |-> name, length |-> length]
Newline == Piece("\n", 1)
Bytes(text) ==
  LET bytes[k \in 0 .. Len(text)] == IF k = 0 THEN 0 ELSE bytes[k - 1] + text[k].length
  IN  bytes[Len(text)]

Statuses == [code \in {200, 204, 400, 500} |->
               Piece("status", CASE code = 200 -> 15 [] code = 204 -> 23
                                 [] code = 400 -> 24 [] code = 500 -> 34)]

\* Response_set_status: the switch, with its default.
Status(code) == IF code \in DOMAIN Statuses THEN code ELSE 200

\* Bug: the date, which asctime ends with a newline, is not the last header.
HeadersDateFirst ==
  <<<<Piece("Date", 30), Newline>>, <<Piece("Access-Control-Allow-Origin", 30)>>,
    <<Piece("Connection", 17)>>, <<Piece("Content-type", 39)>>, <<Piece("Host", 20)>>>>

\* Response_set_headers, in its order.
Headers ==
  <<<<Piece("Access-Control-Allow-Origin", 30)>>, <<Piece("Connection", 17)>>,
    <<Piece("Content-type", 39)>>, <<Piece("Host", 20)>>, <<Piece("Date", 30), Newline>>>>

EmptyRequest == <<Piece("Empty request received.", 23)>>
NoJson       == <<Piece("Failed to create final JSON response.", 37)>>
Json(n)      == <<Piece("json", n)>>
Bodies       == {EmptyRequest, NoJson} \cup {Json(n) : n \in JsonLength}

Latest(codes) == codes[Len(codes)]

\* Response_assemble: status and headers, each with a newline, and the body.
Assembled(r) ==
  LET upTo[k \in 0 .. Len(Headers)] ==
        IF k = 0 THEN <<Statuses[Latest(r.statuses)], Newline>>
        ELSE upTo[k - 1] \o Headers[k] \o <<Newline>>
  IN  upTo[Len(Headers)] \o r.body

\* Bug: the newlines behind the headers are not counted.
TotalSizeWithoutNewlines(r) ==
  LET upTo[k \in 0 .. Len(Headers)] == IF k = 0 THEN 0 ELSE upTo[k - 1] + Bytes(Headers[k])
  IN  Statuses[Latest(r.statuses)].length + 1 + upTo[Len(Headers)] + Bytes(r.body) + 1

\* total_size of Response_assemble.
TotalSize(r) ==
  LET upTo[k \in 0 .. Len(Headers)] == IF k = 0 THEN 0 ELSE upTo[k - 1] + Bytes(Headers[k]) + 1
  IN  Statuses[Latest(r.statuses)].length + 1 + upTo[Len(Headers)] + Bytes(r.body) + 1

\* The blocks of a response, with the bytes malloc is asked for and the bytes written. The
\* second header gets one less than its length: the + 1 moves the pointer into the literal.
Blocks(r) ==
  {[asked |-> Bytes(Headers[k]) + (IF k = 2 THEN -1 ELSE 1),
    written |-> Bytes(Headers[k]) + 1] : k \in DOMAIN Headers}
  \cup {[asked |-> Bytes(r.body) + 1, written |-> Bytes(r.body) + 1],
        [asked |-> TotalSize(r), written |-> Bytes(r.text) + 1]}

\* The broker knows these types; for others it returns a response it has not set.
Operations == {"consume", "produce", "length", "get", "getAll", "addQueue",
               "getAllQueueNames", "removeQueue"}
Known(type) == type # <<>> /\ Len(type) = 1 /\ type[1] \in Operations
CodesOf(type) == IF Known(type) THEN {200, 500} ELSE {0, 204, 500}
-----------------------------------------------------------------------------
(* The thread                                                               *)

\* Bug: threads are detached, and a new one gets the stack of one that has ended, with what
\* is left in its buffer.
AcceptOnOldStack(s, m) ==
  /\ pc[s] = "idle"
  /\ client' = [client EXCEPT ![s] = m]
  /\ Goto(s, "recv")
  /\ UNCHANGED <<buffer, got, req, res>>

\* main and Server_accept: a thread starts, on a stack of its own.
Accept(s, m) ==
  /\ pc[s] = "idle"
  /\ client' = [client EXCEPT ![s] = m]
  /\ buffer' = [buffer EXCEPT ![s] = Fresh]
  /\ Goto(s, "recv")
  /\ UNCHANGED <<got, req, res>>

\* The first n cells of the text are put at the front of the buffer; nothing marks their end.
Put(s, n) ==
  /\ buffer' = [buffer EXCEPT ![s] =
                  [i \in 1 .. BufferSize |-> IF i <= n THEN client[s].text[i] ELSE @[i]]]
  /\ got' = [got EXCEPT ![s] = n]
  /\ Goto(s, "parse")
  /\ UNCHANGED <<client, req, res>>

\* How much of a text recv can return, which is called once: something, at most what has
\* arrived by then and what the buffer has room for.
Arriving(text) == (Cuts \cup {Len(text), BufferSize}) \cap (1 .. Len(text)) \cap (1 .. BufferSize)

Receive(s) ==
  /\ pc[s] = "recv"
  /\ \E n \in Arriving(client[s].text) : Put(s, n)

\* The client closes the connection, or it breaks, before anything has arrived; the result
\* of recv is not looked at.
ReceiveNothing(s) == pc[s] = "recv" /\ Put(s, 0)

\* Request_parse. A text that begins with a space has its method copied to NULL; when no
\* space ends the method the copying runs on behind the buffer.
Parse(s) ==
  /\ pc[s] = "parse"
  /\ \E text \in Strings(buffer[s]) :
       \/ /\ ~BeginsWithSpace(text)
          /\ req' = [req EXCEPT ![s] =
               IF text = <<>> THEN NullRequest
               ELSE [method |-> Method(text), body |-> Pairs(text, KeysOf(Method(text)))]]
          /\ Goto(s, "handle")
          /\ UNCHANGED <<buffer, client, got, res>>
       \/ /\ BeginsWithSpace(text) \/ (text # <<>> /\ \A i \in 1 .. BufferSize : buffer[s][i] # " ")
          /\ Die

\* Response_handle: without a request an error, otherwise what the broker answers, as JSON
\* if there is memory for it.
Handle(s) ==
  LET ask == BrokerRequest(req[s])
      respond(codes, body) == /\ res' = [res EXCEPT ![s] = [statuses |-> codes, body |-> body, text |-> <<>>]]
                              /\ Goto(s, "assemble")
                              /\ UNCHANGED <<buffer, client, got, req>>
  IN  /\ pc[s] = "handle"
      /\ \/ req[s] = NullRequest /\ respond(<<400>>, EmptyRequest)
         \/ /\ req[s] # NullRequest /\ ask.type # <<>>
            /\ \E code \in CodesOf(ask.type) :
                 \/ \E n \in JsonLength : respond(<<Status(code)>>, Json(n))
                 \/ respond(<<Status(code), 500>>, NoJson)
         \/ req[s] # NullRequest /\ ~Known(ask.type) /\ Die

\* Response_assemble, after the mutex is unlocked.
Assemble(s) ==
  /\ pc[s] = "assemble"
  /\ res' = [res EXCEPT ![s].text = Assembled(res[s])]
  /\ Goto(s, "send")
  /\ UNCHANGED <<buffer, client, got, req>>

\* send, the destructors and close; the stack stays as it is, and stays reserved.
Send(s) ==
  /\ pc[s] = "send"
  /\ client' = [client EXCEPT ![s] = Silence]
  /\ got' = [got EXCEPT ![s] = 0]
  /\ req' = [req EXCEPT ![s] = NullRequest]
  /\ res' = [res EXCEPT ![s] = NoResponse]
  /\ Goto(s, "idle")
  /\ UNCHANGED buffer

Next ==
  \E s \in Thread :
    \/ \E m \in Message : Accept(s, m)
    \/ Receive(s) \/ ReceiveNothing(s)
    \/ Parse(s) \/ Handle(s) \/ Assemble(s) \/ Send(s)

Spec == Init /\ [][Next]_vars
-----------------------------------------------------------------------------
(* Properties                                                               *)

Steps == {"idle", "recv", "parse", "handle", "assemble", "send"}
Pair == [key: Keys, value: Seq(Cell) \ {<<>>}]
PieceName == {"\n", "status", "Access-Control-Allow-Origin", "Connection", "Content-type", "Host",
              "Date", "Empty request received.", "Failed to create final JSON response.", "json"}
Pieces == [name: PieceName, length: Nat]
Text == Seq(Pieces)
Response == [statuses: Seq(DOMAIN Statuses), body: {<<>>} \cup Bodies, text: Text]

\* A parameter of a request has a value: NULL is what RequestBody_get returns for one
\* that is left empty.
TypeOK ==
  /\ pc \in [Thread -> Steps]
  /\ buffer \in [Thread -> [1 .. BufferSize -> Cell]]
  /\ client \in [Thread -> Message \cup {Silence}]
  /\ got \in [Thread -> 0 .. BufferSize]
  /\ req \in [Thread -> [method: Seq(Cell), body: SUBSET Pair]]
  /\ res \in [Thread -> Response]

\* The parameter is the first of its name, and no NUL ends the text before it.
IsFirst(p, text) == \A j \in 1 .. p.at - 1 : text[j] \notin {p.key, NUL}

\* Its value is among the first n cells of a text, and does not end where the buffer ends.
Received(p, n) == p.at + Len(p.value) <= n /\ p.at + Len(p.value) < BufferSize

\* The broker is asked with the value that is meant; with an index, if a short can hold it.
AsMeant(ask, p) ==
  /\ p.key = "type="  => ask.type = p.value
  /\ p.key = "queue=" => ask.queueName = p.value
  /\ p.key = "data="  => ask.data = p.value
  /\ p.key = "index=" /\ p.value \in DOMAIN NumberOf /\ NumberOf[p.value] < 2^16 =>
       ask.index = NumberOf[p.value]

\* A request whose first n cells have been received asks as is meant.
Understood(m, n, r) ==
  /\ n = 0 => r = NullRequest
  /\ \A p \in m.params : Received(p, n) /\ IsFirst(p, m.text) => AsMeant(BrokerRequest(r), p)

\* Every parameter whose value recv has returned in full reaches the broker with that value
\* (README.md:31), whatever has arrived behind it: a part of the request only, all of it,
\* the last value of a body, which nothing closes (README.md:146), or more than the buffer
\* holds. Of parameters with the same name this is claimed of the first. A client from whom
\* nothing was received is not taken for another: its request is NULL.
ParametersArrive ==
  \A s \in Thread :
    pc[s] \in {"handle", "assemble", "send"} => Understood(client[s], got[s], req[s])

\* A response that is put together has a status and a body, one that is sent is made of
\* them and the headers.
Ready ==
  \A s \in Thread :
    /\ pc[s] \in {"assemble", "send"} => res[s].statuses # <<>> /\ res[s].body \in Bodies
    /\ pc[s] = "send" => res[s].text = Assembled(res[s])

\* What makes ParametersArrive last: nobody else has written into the buffer, what has
\* arrived stands at its front until it is parsed, and NULs behind. What is sent is Ready.
RequestInv ==
  /\ TypeOK
  /\ ParametersArrive
  /\ \A s \in Thread : pc[s] = "recv" => buffer[s] = Fresh
  /\ \A s \in Thread : pc[s] = "parse" =>
       /\ got[s] <= Len(client[s].text)
       /\ buffer[s] = [i \in 1 .. BufferSize |-> IF i <= got[s] THEN client[s].text[i] ELSE NUL]
  /\ Ready

\* A client finds the body: the first empty line of a response is the one before the body.
HeadEndsBeforeBody ==
  \A s \in Thread : pc[s] = "send" =>
    LET text == res[s].text
        empty(k) == text[k - 1] = Newline /\ text[k] = Newline
    IN  \E k \in 2 .. Len(text) : /\ empty(k) /\ \A j \in 2 .. k - 1 : ~empty(j)
                                  /\ SubSeq(text, k + 1, Len(text)) = res[s].body

\* The text of a response is no longer than the block it is put together in, whose size is
\* added up before: none of the newlines between the headers, and not the NUL, is forgotten.
TextFits == \A s \in Thread : pc[s] = "send" => Bytes(res[s].text) + 1 <= TotalSize(res[s])

\* No string of a response is longer than the size its block is allocated with
\* ("@size: allocated memory size", util/mem.c:9).
BlocksFit == \A s \in Thread : pc[s] = "send" =>
  \A b \in Blocks(res[s]) : b.written <= b.asked
=============================================================================
