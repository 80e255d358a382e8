-------------------------------- MODULE Http --------------------------------
(***************************************************************************)
(* The HTTP layer of one connection: HttpServer::MessageCallback with      *)
(* HttpContent::ParseContent and the part of HttpRequest that decides how  *)
(* a request ends (httpserver.cc, httpcontent.cc, httprequest.cc).         *)
(*                                                                         *)
(* The client sends lines, in pieces of its choice: what one read brings   *)
(* may end inside a line, or hold several requests.  A line is known by    *)
(* what the parser can tell of it.  A piece is half a line: its text, then *)
(* its CRLF; sent and read count pieces.  How the responses travel is      *)
(* TcpConnection's matter.                                                 *)
(***************************************************************************)
EXTENDS Naturals, Sequences

CONSTANT MaxLines   (* bound of the model: lines the client sends *)

ASSUME HttpAssumption == MaxLines \in Nat

(* Lines ParseRequestLine takes, by their version; none has a colon here,  *)
(* though a path may: such a line would be a header among the headers.     *)
RequestLines == {"HTTP/1.0", "HTTP/1.1"}

(* Lines with a colon: Connection headers, by their value, which is one of *)
(* the two the server knows, spelt as it spells them, or another one; and  *)
(* all other headers.                                                      *)
ConnectionHeaders == {"Close", "Keep-Alive", "value"}
HeaderLines == ConnectionHeaders \cup {"header"}

Lines == RequestLines \cup HeaderLines \cup {"Blank"}

VARIABLES
  lines,           (* the lines the client has begun to send                *)
  sent,            (* pieces of them it has sent                            *)
  read,            (* pieces the connection has read                        *)
  call,            (* waiting, in ParseContent, or after it                 *)
  next_line,       (* the first line in the input buffer                    *)
  parse_state_,
  parseok,
  request_,        (* version_, headers_["Connection"]; and its first line  *)
  shutdown_state_,
  responses        (* what has been sent back                               *)

client == <<lines, sent>>
content == <<next_line, parse_state_, parseok, request_>>
vars == <<client, read, call, content, shutdown_state_, responses>>

Init ==
  /\ lines = <<>>
  /\ sent = 0
  /\ read = 0
  /\ call = "poll"
  /\ next_line = 1
  /\ parse_state_ = "kParseRequestLine"
  /\ parseok = TRUE
  /\ request_ = [version |-> "kUnknown", connection |-> "absent", first |-> 0]
  /\ shutdown_state_ = FALSE
  /\ responses = <<>>

-----------------------------------------------------------------------------
(* The client sends the text of a line, then its end. *)
SendPiece ==
  /\ sent' = sent + 1
  /\ \/ /\ sent = 2 * Len(lines)
        /\ Len(lines) < MaxLines
        /\ \E line \in Lines : lines' = Append(lines, line)
     \/ /\ sent < 2 * Len(lines)
        /\ UNCHANGED lines
  /\ UNCHANGED <<read, call, content, shutdown_state_, responses>>

-----------------------------------------------------------------------------
(* Mistake: the callback does not ask whether the connection is shut down. *)
HandleMessage_NoTest ==
  /\ call = "poll"
  /\ read < sent
  /\ read' = sent
  /\ call' = "parse"
  /\ parseok' = TRUE
  /\ UNCHANGED <<client, next_line, parse_state_, request_, shutdown_state_,
                 responses>>

(* TcpConnection::HandleMessage reads all there is and calls               *)
(* MessageCallback, which has nothing to do after Shutdown.                *)
HandleMessage ==
  /\ call = "poll"
  /\ read < sent
  /\ read' = sent
  /\ call' = IF shutdown_state_ THEN "poll" ELSE "parse"
  /\ parseok' = TRUE
  /\ UNCHANGED <<client, next_line, parse_state_, request_, shutdown_state_,
                 responses>>

(* The rounds of the loop in ParseContent. *)

FindCRLF == 2 * next_line <= read

RetrieveLine == next_line' = next_line + 1

Parses(state) == call = "parse" /\ parse_state_ = state /\ FindCRLF

Stop ==
  /\ call = "parse"
  /\ parse_state_ = "kParseGotCompleteRequest" \/ ~ FindCRLF
  /\ call' = "parsed"
  /\ UNCHANGED <<client, read, content, shutdown_state_, responses>>

(* A line that is no request line is retrieved as well; what it leaves of  *)
(* itself in request_ nobody reads, as the connection is shut down.        *)
ParseRequestLine ==
  /\ Parses("kParseRequestLine")
  /\ RetrieveLine
  /\ IF lines[next_line] \in RequestLines
     THEN /\ request_' = [request_ EXCEPT !.version = lines[next_line],
                                          !.first = next_line]
          /\ parse_state_' = "kParseHeaders"
          /\ UNCHANGED <<call, parseok>>
     ELSE /\ parseok' = FALSE
          /\ call' = "parsed"
          /\ UNCHANGED <<request_, parse_state_>>
  /\ UNCHANGED <<client, read, shutdown_state_, responses>>

(* Mistake: a header that is there already stays as it is.                 *)
StoreHeader_KeepsFirst(line) ==
  request_' = [request_ EXCEPT
    !.connection = IF line \in ConnectionHeaders /\ @ = "absent" THEN line ELSE @]

(* HttpRequest::ParseHeaders: headers_[name] = value *)
StoreHeader(line) ==
  request_' = [request_ EXCEPT
    !.connection = IF line \in ConnectionHeaders THEN line ELSE @]

(* Mistake: ParseContent returns after each header.                        *)
ParseHeaders_OneLine ==
  /\ Parses("kParseHeaders")
  /\ lines[next_line] \in HeaderLines
  /\ RetrieveLine
  /\ StoreHeader(lines[next_line])
  /\ call' = "parsed"
  /\ UNCHANGED <<client, read, parse_state_, parseok, shutdown_state_,
                 responses>>

ParseHeaders ==
  /\ Parses("kParseHeaders")
  /\ lines[next_line] \in HeaderLines
  /\ RetrieveLine
  /\ StoreHeader(lines[next_line])
  /\ UNCHANGED <<client, read, call, parse_state_, parseok, shutdown_state_,
                 responses>>

(* Mistake: the line is left in the buffer.                                *)
EndHeaders_KeepsLine ==
  /\ Parses("kParseHeaders")
  /\ lines[next_line] \notin HeaderLines
  /\ parse_state_' = "kParseGotCompleteRequest"
  /\ call' = "parsed"
  /\ UNCHANGED <<client, read, next_line, parseok, request_, shutdown_state_,
                 responses>>


(* Any line without a colon ends the headers, and the request with them.   *)
EndHeaders ==
  /\ Parses("kParseHeaders")
  /\ lines[next_line] \notin HeaderLines
  /\ RetrieveLine
  /\ parse_state_' = "kParseGotCompleteRequest"
  /\ call' = "parsed"
  /\ UNCHANGED <<client, read, parseok, request_, shutdown_state_, responses>>

-----------------------------------------------------------------------------
(* The rest of MessageCallback *)

Respond(status, first, close) ==
  responses' = Append(responses,
    [status |-> status, first |-> first, last |-> next_line - 1,
     read |-> read, close |-> close])

(* 400 Bad Request and Shutdown.  A request is not complete then. *)
BadRequest ==
  /\ call = "parsed" /\ ~ parseok
  /\ Respond("400", next_line - 1, TRUE)
  /\ shutdown_state_' = TRUE
  /\ call' = "poll"
  /\ UNCHANGED <<client, read, content>>

Incomplete ==
  /\ call = "parsed" /\ parseok
  /\ parse_state_ # "kParseGotCompleteRequest"
  /\ call' = "poll"
  /\ UNCHANGED <<client, read, content, shutdown_state_, responses>>

(* Does the client want the connection closed? *)
CloseAsked ==
  \/ request_.connection = "Close"
  \/ request_.version = "HTTP/1.0" /\ request_.connection # "Keep-Alive"

(* The response callback of main.cc, by what becomes of close: a page is   *)
(* sent with close as it is, and what is no GET or not found closes the    *)
(* connection.  No callback keeps open what is to be closed.               *)
HttpResponseCallback(close) == {close, TRUE}

(* Mistake: the parser's state is not reset.                               *)
DealWithRequest_NoReset ==
  /\ call = "parsed" /\ parse_state_ = "kParseGotCompleteRequest"
  /\ \E close \in HttpResponseCallback(CloseAsked) :
       /\ Respond("reply", request_.first, close)
       /\ shutdown_state_' = (shutdown_state_ \/ close)
  /\ call' = "poll"
  /\ UNCHANGED <<client, read, content>>

(* DealWithRequest, and ResetContentState, which sets parse_state_ only.   *)
DealWithRequest ==
  /\ call = "parsed" /\ parse_state_ = "kParseGotCompleteRequest"
  /\ \E close \in HttpResponseCallback(CloseAsked) :
       /\ Respond("reply", request_.first, close)
       /\ shutdown_state_' = (shutdown_state_ \/ close)
  /\ parse_state_' = "kParseRequestLine"
  /\ call' = "poll"
  /\ UNCHANGED <<client, read, next_line, parseok, request_>>

-----------------------------------------------------------------------------
ParseContent == Stop \/ ParseRequestLine \/ ParseHeaders \/ EndHeaders

MessageCallback == ParseContent \/ BadRequest \/ Incomplete \/ DealWithRequest

Next == SendPiece \/ HandleMessage \/ MessageCallback

Spec == Init /\ [][Next]_vars

(* The loop's thread is scheduled. *)
FairSpec == Spec /\ WF_vars(HandleMessage \/ MessageCallback)

-----------------------------------------------------------------------------
ResponseType ==
  [status : {"400", "reply"}, first : 1 .. MaxLines, last : 1 .. MaxLines,
   read : 1 .. 2 * MaxLines, close : BOOLEAN]

(* The types; and between two callbacks no finished request is left in the *)
(* parser, so that ParseContent always begins with a line of its own       *)
(* (httpserver.cc:32-35).                                                  *)
TypeOK ==
  /\ lines \in Seq(Lines)
  /\ sent \in 0 .. 2 * Len(lines)
  /\ read \in 0 .. sent
  /\ call \in {"poll", "parse", "parsed"}
  /\ next_line \in 1 .. (read \div 2) + 1
  /\ parse_state_ \in {"kParseRequestLine", "kParseHeaders",
                       "kParseGotCompleteRequest"}
  /\ parseok \in BOOLEAN
  /\ request_ \in [version : RequestLines \cup {"kUnknown"},
                   connection : ConnectionHeaders \cup {"absent"},
                   first : 0 .. MaxLines]
  /\ shutdown_state_ \in BOOLEAN
  /\ responses \in Seq(ResponseType)
  /\ call # "parsed" => parse_state_ # "kParseGotCompleteRequest"

(* However the bytes are cut into reads, the responses answer the client's *)
(* lines one request after another without a gap: each reply is to a       *)
(* request line, its headers and the line that ends them, all of them read;*)
(* a 400 is to a line in the place of a request line (httpcontent.cc:15-57)*)
IsRequest(first, last) ==
  /\ first < last
  /\ lines[first] \in RequestLines
  /\ \A n \in first + 1 .. last - 1 : lines[n] \in HeaderLines
  /\ lines[last] \notin HeaderLines

ResponsesInOrder ==
  \A k \in DOMAIN responses :
    LET r == responses[k] IN
    /\ r.first = (IF k = 1 THEN 1 ELSE responses[k - 1].last + 1)
    /\ 2 * r.last <= r.read
    /\ r.status = "reply" => IsRequest(r.first, r.last)
    /\ r.status = "400" => r.first = r.last /\ lines[r.first] \notin RequestLines

(* What TcpConnection takes for granted of its message callback: one       *)
(* response at most in each, and none once a response has closed the       *)
(* connection and Shutdown been called (httpserver.cc:25 and 51-53).       *)
CallbackContract ==
  /\ \A k \in 1 .. Len(responses) - 1 :
       responses[k].read < responses[k + 1].read /\ ~ responses[k].close
  /\ shutdown_state_ <=> responses # <<>> /\ responses[Len(responses)].close

(* A request that has been read as a whole waits for its response only     *)
(* behind another one of the same read, which has just been answered; it   *)
(* then waits until the client sends more (httpserver.cc:32-35).           *)
BegunAt == IF parse_state_ = "kParseHeaders" THEN request_.first ELSE next_line

OnlyPipelinedWait ==
  (/\ call = "poll" /\ ~ shutdown_state_
   /\ \E last \in next_line .. read \div 2 : IsRequest(BegunAt, last))
     => responses # <<>> /\ responses[Len(responses)].read = read

(* The last Connection header of a request decides how it ends, whatever   *)
(* headers_ still holds of the requests before it (httprequest.cc:85-94,   *)
(* httpcontent.h:21-25).                                                   *)
HonoursConnectionHeader ==
  \A k \in DOMAIN responses :
    LET r == responses[k]
        own == {n \in r.first .. r.last : lines[n] \in ConnectionHeaders}
    IN \A n \in own :
         (r.status = "reply" /\ \A m \in own : m <= n)
           => (lines[n] = "Close" => r.close)

=============================================================================
