----------------------------- MODULE HttpProofs -----------------------------
(***************************************************************************)
(* Theorems about Http for any number of lines, cut into reads anyhow.     *)
(***************************************************************************)
EXTENDS Http, TLAPS

(* The line after the last one answered. *)
NextFirst == IF responses = <<>> THEN 1 ELSE responses[Len(responses)].last + 1

LastRead == IF responses = <<>> THEN 0 ELSE responses[Len(responses)].read

(* The line before next_line was to begin a request and does not. *)
AtBadLine == call = "parsed" /\ ~ parseok

(* What the parser has taken of the request it is in, by its state.        *)
Parser ==
  /\ parse_state_ = "kParseRequestLine" /\ ~ AtBadLine => next_line = NextFirst
  /\ AtBadLine => /\ parse_state_ = "kParseRequestLine"
                  /\ next_line = NextFirst + 1
                  /\ lines[next_line - 1] \notin RequestLines
  /\ parse_state_ = "kParseHeaders" =>
       /\ request_.first = NextFirst
       /\ request_.first < next_line
       /\ lines[request_.first] \in RequestLines
       /\ \A n \in request_.first + 1 .. next_line - 1 : lines[n] \in HeaderLines
  /\ parse_state_ = "kParseGotCompleteRequest" =>
       request_.first = NextFirst /\ IsRequest(request_.first, next_line - 1)

(* The last Connection header among the lines first to last, if any.       *)
LastConnection(first, last, n) ==
  /\ n \in first .. last /\ lines[n] \in ConnectionHeaders
  /\ \A m \in first .. last : lines[m] \in ConnectionHeaders => m <= n

(* headers_ holds the last Connection header of the request under way.     *)
Header ==
  parse_state_ # "kParseRequestLine" =>
    \A n \in request_.first .. next_line - 1 :
      LastConnection(request_.first, next_line - 1, n) => request_.connection = lines[n]

(* A callback has new bytes, and the connection is open.                   *)
Fresh ==
  /\ Len(lines) <= MaxLines
  /\ \A k \in DOMAIN responses : responses[k].read <= read
  /\ call # "poll" => ~ shutdown_state_ /\ LastRead < read
  /\ call = "parse" => parseok

(* A line waits in the buffer only behind a request just answered.         *)
Waiting ==
  /\ call = "parsed" /\ parseok /\ parse_state_ # "kParseGotCompleteRequest" => ~ FindCRLF
  /\ call = "poll" /\ ~ shutdown_state_ => ~ FindCRLF \/ LastRead = read

HttpInv ==
  /\ TypeOK /\ Fresh /\ Parser /\ Header /\ Waiting
  /\ ResponsesInOrder /\ CallbackContract /\ HonoursConnectionHeader
-----------------------------------------------------------------------------
LEMMA Numbers ==
  ASSUME TypeOK
  PROVE  /\ next_line \in Nat /\ next_line >= 1 /\ 2 * (next_line - 1) <= read
         /\ read \in Nat /\ read <= 2 * Len(lines) /\ sent \in Nat /\ Len(lines) \in Nat
         /\ next_line - 1 <= Len(lines)
         /\ FindCRLF => next_line <= Len(lines)
<1>1. Len(lines) \in Nat
  BY DEF TypeOK
<1>2. sent \in Nat /\ sent <= 2 * Len(lines) /\ read \in Nat /\ read <= sent
  BY <1>1 DEF TypeOK
<1>3. next_line \in Nat /\ next_line >= 1 /\ next_line - 1 <= read \div 2
  BY <1>2 DEF TypeOK
<1>4. read \div 2 \in Nat /\ 2 * (read \div 2) <= read
  BY <1>2
<1>. QED
  BY <1>1, <1>2, <1>3, <1>4 DEF FindCRLF

LEMMA Bounded ==
  ASSUME HttpInv, NEW k \in DOMAIN responses
  PROVE  /\ responses[k] \in ResponseType
         /\ responses[k].first \in Nat /\ responses[k].last \in Nat /\ responses[k].read \in Nat
         /\ 1 <= responses[k].first /\ responses[k].first <= responses[k].last
         /\ responses[k].last <= Len(lines) /\ responses[k].read <= read
<1>1. responses \in Seq(ResponseType)
  BY DEF HttpInv, TypeOK
<1>2. responses[k] \in ResponseType
  BY <1>1
<1>3. /\ responses[k].first \in 1 .. MaxLines /\ responses[k].last \in 1 .. MaxLines
      /\ responses[k].read \in 1 .. 2 * MaxLines /\ responses[k].status \in {"400", "reply"}
  BY <1>2 DEF ResponseType
<1>4. responses[k].first <= responses[k].last /\ 2 * responses[k].last <= responses[k].read
  BY <1>3, HttpAssumption DEF HttpInv, ResponsesInOrder, IsRequest
<1>5. responses[k].read <= read /\ read <= 2 * Len(lines) /\ read \in Nat /\ Len(lines) \in Nat
  BY Numbers DEF HttpInv, Fresh
<1>. QED
  BY <1>2, <1>3, <1>4, <1>5, HttpAssumption

LEMMA LastOne ==
  ASSUME HttpInv
  PROVE  /\ NextFirst \in Nat /\ NextFirst >= 1 /\ NextFirst <= Len(lines) + 1
         /\ LastRead \in Nat
<1>1. responses \in Seq(ResponseType)
  BY DEF HttpInv, TypeOK
<1>2. CASE responses = <<>>
  BY <1>2, Numbers DEF HttpInv, NextFirst, LastRead
<1>3. CASE responses # <<>>
  <2>1. Len(responses) \in DOMAIN responses
    BY <1>1, <1>3
  <2>2. Len(lines) \in Nat
    BY Numbers DEF HttpInv
  <2>. QED
    BY <1>3, <2>1, <2>2, Bounded DEF NextFirst, LastRead
<1>. QED
  BY <1>2, <1>3

-----------------------------------------------------------------------------
(* What is sent later changes nothing of what has been answered. *)
LEMMA SendKeeps == ASSUME HttpInv, SendPiece PROVE HttpInv'
<1>1. UNCHANGED <<read, call, content, shutdown_state_, responses>>
  BY DEF SendPiece
<1>2. /\ lines \in Seq(Lines) /\ Len(lines) \in Nat /\ Len(lines) <= MaxLines
      /\ sent \in Nat /\ sent <= 2 * Len(lines) /\ read \in 0 .. sent
  BY Numbers DEF HttpInv, TypeOK, Fresh
<1>3. /\ lines' \in Seq(Lines) /\ sent' \in 0 .. 2 * Len(lines') /\ Len(lines') <= MaxLines
      /\ Len(lines') \in Nat /\ Len(lines) <= Len(lines')
      /\ \A n \in 1 .. Len(lines) : lines'[n] = lines[n]
  BY <1>2, HttpAssumption, SMTT(20) DEF SendPiece
<1>4. sent' = sent + 1
  BY DEF SendPiece
<1>5. TypeOK'
  BY <1>1, <1>2, <1>3, <1>4 DEF HttpInv, TypeOK, content
<1>6. NextFirst' = NextFirst /\ LastRead' = LastRead
  BY <1>1 DEF NextFirst, LastRead
<1>7. Fresh' /\ Waiting'
  BY <1>1, <1>3, <1>6 DEF HttpInv, Fresh, Waiting, FindCRLF, content
<1>8. \A n \in Nat : 1 <= n /\ n <= next_line - 1 => n \in 1 .. Len(lines)
  BY Numbers DEF HttpInv
<1>9. request_.first \in Nat /\ next_line \in Nat
  BY Numbers, HttpAssumption DEF HttpInv, TypeOK
<1>10. parse_state_ # "kParseRequestLine" => request_.first = NextFirst
  BY DEF HttpInv, TypeOK, Parser
<1>11. \A first, last \in Nat : 1 <= first /\ last <= Len(lines)
                              => IsRequest(first, last)' = IsRequest(first, last)
  <2> SUFFICES ASSUME NEW first \in Nat, NEW last \in Nat, 1 <= first, last <= Len(lines)
               PROVE  IsRequest(first, last)' <=> IsRequest(first, last)
    BY DEF IsRequest
  <2>1. \A n \in first .. last : lines'[n] = lines[n]
    BY <1>2, <1>3
  <2>2. first < last => first \in first .. last /\ last \in first .. last
    OBVIOUS
  <2>3. \A n \in first + 1 .. last - 1 : n \in first .. last
    OBVIOUS
  <2>. QED
    BY <2>1, <2>2, <2>3 DEF IsRequest
<1>12. Parser'
  <2>1. AtBadLine' <=> AtBadLine
    BY <1>1 DEF AtBadLine, content
  <2>2. AtBadLine => next_line - 1 \in 1 .. Len(lines)
    BY <1>8, <1>9, LastOne DEF HttpInv, Parser
  <2>3. parse_state_ = "kParseHeaders" => \A n \in request_.first .. next_line - 1 : lines'[n] = lines[n]
    BY <1>3, <1>8, <1>9, <1>10, LastOne
  <2>4. parse_state_ = "kParseHeaders" =>
          /\ request_.first \in request_.first .. next_line - 1
          /\ \A n \in request_.first + 1 .. next_line - 1 : n \in request_.first .. next_line - 1
    BY <1>9 DEF HttpInv, Parser
  <2>5. parse_state_ = "kParseGotCompleteRequest" => IsRequest(request_.first, next_line - 1)'
    <3>1. next_line - 1 \in Nat /\ next_line - 1 <= Len(lines)
      BY Numbers DEF HttpInv
    <3>. QED
      BY <1>1, <1>9, <1>10, <1>11, <3>1, LastOne DEF HttpInv, Parser, content
  <2>. QED
    BY <1>1, <1>3, <1>6, <2>1, <2>2, <2>3, <2>4, <2>5 DEF HttpInv, Parser, content
<1>13. Header'
  <2>1. parse_state_ # "kParseRequestLine" =>
          \A n \in request_.first .. next_line - 1 : lines'[n] = lines[n]
    BY <1>3, <1>8, <1>9, <1>10, LastOne
  <2>. QED
    BY <1>1, <2>1 DEF HttpInv, Header, LastConnection, content
<1>14. \A k \in DOMAIN responses : \A n \in responses[k].first .. responses[k].last :
         lines'[n] = lines[n]
  BY <1>2, <1>3, Bounded
<1>15. ResponsesInOrder'
  <2> SUFFICES ASSUME NEW k \in DOMAIN responses
               PROVE  LET r == responses[k] IN
                      /\ r.first = (IF k = 1 THEN 1 ELSE responses[k - 1].last + 1)
                      /\ 2 * r.last <= r.read
                      /\ r.status = "reply" => IsRequest(r.first, r.last)'
                      /\ r.status = "400" => r.first = r.last /\ lines'[r.first] \notin RequestLines
    BY <1>1 DEF ResponsesInOrder, IsRequest
  <2>1. /\ responses[k].first \in Nat /\ responses[k].last \in Nat /\ 1 <= responses[k].first
        /\ responses[k].last <= Len(lines)
        /\ responses[k].first \in responses[k].first .. responses[k].last
    BY Bounded
  <2>2. IsRequest(responses[k].first, responses[k].last)'
          = IsRequest(responses[k].first, responses[k].last)
    <3>1. \A first, last \in Nat : 1 <= first /\ last <= Len(lines)
                              => IsRequest(first, last)' = IsRequest(first, last)
      BY <1>11
    <3>. QED
      BY <1>1, <2>1, <3>1 DEF IsRequest
  <2>3. lines'[responses[k].first] = lines[responses[k].first]
    BY <1>14, <2>1
  <2>. QED
    BY <2>2, <2>3 DEF HttpInv, ResponsesInOrder
<1>16. CallbackContract'
  BY <1>1 DEF HttpInv, CallbackContract
<1>17. HonoursConnectionHeader'
  BY <1>1, <1>14 DEF HttpInv, HonoursConnectionHeader
<1>. QED
  BY <1>5, <1>7, <1>12, <1>13, <1>15, <1>16, <1>17 DEF HttpInv

LEMMA HandleMessageKeeps == ASSUME HttpInv, HandleMessage PROVE HttpInv'
<1>1. /\ UNCHANGED <<client, next_line, parse_state_, request_, shutdown_state_, responses>>
      /\ call = "poll" /\ read < sent /\ read' = sent /\ parseok' = TRUE
      /\ call' = IF shutdown_state_ THEN "poll" ELSE "parse"
  BY DEF HandleMessage
<1>2. lines' = lines /\ sent' = sent /\ read \in Nat /\ sent \in Nat /\ next_line \in Nat
  BY <1>1, Numbers DEF HttpInv, client
<1>3. TypeOK'
  <2>1. next_line \in 1 .. (read' \div 2) + 1
    BY <1>1, <1>2 DEF HttpInv, TypeOK
  <2>2. sent \in 0 .. sent
    BY <1>2
  <2>. QED
    BY <1>1, <1>2, <2>1, <2>2 DEF HttpInv, TypeOK
<1>4. NextFirst' = NextFirst /\ LastRead' = LastRead /\ ~ AtBadLine /\ ~ AtBadLine'
  BY <1>1 DEF NextFirst, LastRead, AtBadLine
<1>5. LastRead <= read
  <2>1. CASE responses = <<>>
    BY <1>2, <2>1 DEF LastRead
  <2>2. CASE responses # <<>>
    <3>1. Len(responses) \in DOMAIN responses
      BY <2>2 DEF HttpInv, TypeOK
    <3>. QED
      BY <2>2, <3>1, Bounded DEF LastRead
  <2>. QED
    BY <2>1, <2>2
<1>6. Fresh'
  <2>1. \A k \in DOMAIN responses : responses[k].read <= read'
    BY <1>1, <1>2, Bounded
  <2>2. call' # "poll" => ~ shutdown_state_' /\ LastRead' < read'
    BY <1>1, <1>2, <1>4, <1>5, LastOne
  <2>. QED
    BY <1>1, <1>2, <2>1, <2>2 DEF HttpInv, Fresh
<1>7. Waiting'
  BY <1>1 DEF Waiting
<1>8. Parser'
  BY <1>1, <1>2, <1>4 DEF HttpInv, Parser, IsRequest
<1>9. Header' /\ ResponsesInOrder' /\ CallbackContract' /\ HonoursConnectionHeader'
  BY <1>1, <1>2 DEF HttpInv, Header, LastConnection, ResponsesInOrder, IsRequest,
                    CallbackContract, HonoursConnectionHeader
<1>. QED
  BY <1>3, <1>6, <1>7, <1>8, <1>9 DEF HttpInv

-----------------------------------------------------------------------------
(* The rounds of ParseContent *)

(* Nothing is answered while ParseContent runs. *)
LEMMA ParsingAnswersNothing ==
  ASSUME HttpInv, ParseContent
  PROVE  /\ UNCHANGED <<client, read, shutdown_state_, responses>>
         /\ call = "parse" /\ parseok /\ call' # "poll"
         /\ NextFirst' = NextFirst /\ LastRead' = LastRead
         /\ ResponsesInOrder' /\ CallbackContract' /\ HonoursConnectionHeader' /\ Fresh'
<1>1. /\ UNCHANGED <<client, read, shutdown_state_, responses>>
      /\ call = "parse" /\ call' \in {"parse", "parsed"}
  BY DEF ParseContent, Stop, ParseRequestLine, ParseHeaders, EndHeaders, Parses
<1>2. call' = "parse" => parseok' = parseok
  BY DEF ParseContent, Stop, ParseRequestLine, ParseHeaders, EndHeaders, content
<1>3. NextFirst' = NextFirst /\ LastRead' = LastRead
  BY <1>1 DEF NextFirst, LastRead
<1>4. ResponsesInOrder' /\ CallbackContract' /\ HonoursConnectionHeader'
  BY <1>1 DEF client, HttpInv, ResponsesInOrder, IsRequest, CallbackContract,
              HonoursConnectionHeader
<1>5. Fresh'
  BY <1>1, <1>2, <1>3 DEF client, HttpInv, Fresh
<1>. QED
  BY <1>1, <1>3, <1>4, <1>5 DEF HttpInv, Fresh

(* A line is there to be taken. *)
LEMMA TakenLine ==
  ASSUME HttpInv, FindCRLF
  PROVE  /\ next_line \in Nat /\ next_line \in 1 .. Len(lines) /\ next_line <= MaxLines
         /\ next_line + 1 \in 1 .. (read \div 2) + 1
         /\ lines[next_line] \in Lines
<1>1. /\ next_line \in Nat /\ next_line >= 1 /\ next_line <= Len(lines) /\ Len(lines) \in Nat
      /\ read \in Nat /\ 2 * next_line <= read
  BY Numbers DEF HttpInv, FindCRLF
<1>2. next_line <= MaxLines
  BY <1>1, HttpAssumption DEF HttpInv, Fresh
<1>. QED
  BY <1>1, <1>2 DEF HttpInv, TypeOK

LEMMA StopKeeps == ASSUME HttpInv, Stop PROVE HttpInv'
<1>1. /\ UNCHANGED <<client, read, shutdown_state_, responses>>
      /\ UNCHANGED <<next_line, parse_state_, parseok, request_>>
      /\ call = "parse" /\ call' = "parsed"
      /\ parse_state_ = "kParseGotCompleteRequest" \/ ~ FindCRLF
  BY DEF Stop, content
<1>2. ParseContent
  BY DEF ParseContent
<1>3. TypeOK'
  BY <1>1 DEF client, HttpInv, TypeOK
<1>4. Parser'
  BY <1>1, <1>2, ParsingAnswersNothing DEF client, HttpInv, Parser, IsRequest, AtBadLine
<1>5. Header' /\ Waiting'
  BY <1>1 DEF client, HttpInv, Header, LastConnection, Waiting, FindCRLF
<1>. QED
  BY <1>2, <1>3, <1>4, <1>5, ParsingAnswersNothing DEF HttpInv

LEMMA ParseRequestLineKeeps == ASSUME HttpInv, ParseRequestLine PROVE HttpInv'
<1>1. /\ lines' = lines /\ sent' = sent /\ read' = read /\ responses' = responses
      /\ shutdown_state_' = shutdown_state_ /\ call = "parse" /\ parseok
      /\ parse_state_ = "kParseRequestLine" /\ next_line' = next_line + 1
  BY ParsingAnswersNothing
     DEF ParseContent, ParseRequestLine, Parses, RetrieveLine, client
<1>2. ParseContent
  BY DEF ParseContent
<1>3. /\ next_line \in Nat /\ next_line \in 1 .. Len(lines) /\ next_line <= MaxLines
      /\ next_line + 1 \in 1 .. (read \div 2) + 1
      /\ lines[next_line] \in Lines
  BY TakenLine DEF ParseRequestLine, Parses
<1>4. next_line = NextFirst /\ NextFirst' = NextFirst
  BY <1>1, <1>2, ParsingAnswersNothing DEF HttpInv, Parser, AtBadLine
<1>5. CASE lines[next_line] \in RequestLines
  <2>1. /\ request_' = [request_ EXCEPT !.version = lines[next_line], !.first = next_line]
        /\ parse_state_' = "kParseHeaders" /\ call' = "parse" /\ parseok' = parseok
    BY <1>1, <1>5 DEF ParseRequestLine
  <2>2. request_' \in [version : RequestLines \cup {"kUnknown"},
                       connection : ConnectionHeaders \cup {"absent"}, first : 0 .. MaxLines]
    <3>1. request_ \in [version : RequestLines \cup {"kUnknown"},
                         connection : ConnectionHeaders \cup {"absent"}, first : 0 .. MaxLines]
      BY DEF HttpInv, TypeOK
    <3>2. next_line \in 0 .. MaxLines
      BY <1>3, HttpAssumption
    <3>. QED
      BY <1>5, <2>1, <3>1, <3>2
  <2>3. request_'.first = next_line
    BY <2>1 DEF HttpInv, TypeOK
  <2>4. TypeOK'
    BY <1>1, <1>3, <2>1, <2>2 DEF HttpInv, TypeOK
  <2>5. Parser'
    BY <1>1, <1>3, <1>4, <1>5, <2>1, <2>3 DEF Parser, AtBadLine
  <2>6. Header'
    <3>1. \A n \in next_line .. next_line' - 1 : n = next_line
      BY <1>1, <1>3
    <3>. QED
      BY <1>1, <1>5, <2>3, <3>1 DEF Header, LastConnection, RequestLines, ConnectionHeaders
  <2>7. Waiting'
    BY <2>1 DEF Waiting
  <2>. QED
    BY <1>2, <2>4, <2>5, <2>6, <2>7, ParsingAnswersNothing DEF HttpInv
<1>6. CASE lines[next_line] \notin RequestLines
  <2>1. /\ request_' = request_ /\ parse_state_' = parse_state_
        /\ call' = "parsed" /\ parseok' = FALSE
    BY <1>6 DEF ParseRequestLine
  <2>2. TypeOK'
    BY <1>1, <1>3, <2>1 DEF HttpInv, TypeOK
  <2>3. Parser'
    BY <1>1, <1>3, <1>4, <1>6, <2>1 DEF Parser, AtBadLine
  <2>4. Header' /\ Waiting'
    BY <1>1, <2>1 DEF Header, Waiting
  <2>. QED
    BY <1>2, <2>2, <2>3, <2>4, ParsingAnswersNothing DEF HttpInv
<1>. QED
  BY <1>5, <1>6

LEMMA ParseHeadersKeeps == ASSUME HttpInv, ParseHeaders PROVE HttpInv'
<1>1. /\ lines' = lines /\ sent' = sent /\ read' = read /\ responses' = responses
      /\ shutdown_state_' = shutdown_state_ /\ call = "parse" /\ call' = call
      /\ parse_state_ = "kParseHeaders" /\ parse_state_' = parse_state_ /\ parseok' = parseok
      /\ next_line' = next_line + 1 /\ lines[next_line] \in HeaderLines
      /\ request_' = [request_ EXCEPT
           !.connection = IF lines[next_line] \in ConnectionHeaders THEN lines[next_line] ELSE @]
  BY DEF ParseHeaders, Parses, RetrieveLine, StoreHeader, client
<1>2. ParseContent
  BY DEF ParseContent
<1>3. /\ next_line \in Nat /\ next_line \in 1 .. Len(lines) /\ next_line <= MaxLines
      /\ next_line + 1 \in 1 .. (read \div 2) + 1
  BY TakenLine DEF ParseHeaders, Parses
<1>4. NextFirst' = NextFirst
  BY <1>2, ParsingAnswersNothing
<1>5. /\ request_' \in [version : RequestLines \cup {"kUnknown"},
                        connection : ConnectionHeaders \cup {"absent"}, first : 0 .. MaxLines]
      /\ request_'.first = request_.first /\ request_.first \in Nat
      /\ request_'.connection = IF lines[next_line] \in ConnectionHeaders
                                THEN lines[next_line] ELSE request_.connection
  <2>1. request_ \in [version : RequestLines \cup {"kUnknown"},
                       connection : ConnectionHeaders \cup {"absent"}, first : 0 .. MaxLines]
    BY DEF HttpInv, TypeOK
  <2>2. request_.first \in Nat
    BY <2>1, HttpAssumption
  <2>. QED
    BY <1>1, <2>1, <2>2
<1>6. TypeOK'
  BY <1>1, <1>3, <1>5 DEF HttpInv, TypeOK
<1>7. \A n \in request_.first .. next_line : n = next_line \/ n \in request_.first .. next_line - 1
  BY <1>3, <1>5
<1>8. Parser'
  <2>1. \A n \in request_.first + 1 .. next_line : lines[n] \in HeaderLines
    BY <1>1, <1>3, <1>5 DEF HttpInv, Parser
  <2>. QED
    BY <1>1, <1>3, <1>4, <1>5, <2>1 DEF HttpInv, Parser, AtBadLine
<1>9. Header'
  <2> SUFFICES ASSUME NEW n \in request_.first .. next_line,
                      LastConnection(request_.first, next_line, n)
               PROVE  request_'.connection = lines[n]
    BY <1>1, <1>3, <1>5 DEF Header, LastConnection
  <2>1. CASE n = next_line
    BY <1>5, <2>1 DEF LastConnection
  <2>2. CASE n # next_line
    <3>1. n \in request_.first .. next_line - 1
      BY <1>7, <2>2
    <3>2. next_line \in request_.first .. next_line /\ ~ next_line <= n
      BY <1>1, <1>3, <1>5, <3>1 DEF HttpInv, Parser
    <3>3. lines[next_line] \notin ConnectionHeaders
      BY <3>2 DEF LastConnection
    <3>4. LastConnection(request_.first, next_line - 1, n)
      BY <1>3, <1>5, <3>1 DEF LastConnection
    <3>. QED
      BY <1>1, <1>5, <3>1, <3>3, <3>4 DEF HttpInv, Header
  <2>. QED
    BY <2>1, <2>2
<1>10. Waiting'
  BY <1>1 DEF Waiting
<1>. QED
  BY <1>2, <1>6, <1>8, <1>9, <1>10, ParsingAnswersNothing DEF HttpInv

LEMMA EndHeadersKeeps == ASSUME HttpInv, EndHeaders PROVE HttpInv'
<1>1. /\ lines' = lines /\ sent' = sent /\ read' = read /\ responses' = responses
      /\ shutdown_state_' = shutdown_state_ /\ call' = "parsed" /\ parseok' = parseok
      /\ parse_state_ = "kParseHeaders" /\ parse_state_' = "kParseGotCompleteRequest"
      /\ next_line' = next_line + 1 /\ lines[next_line] \notin HeaderLines
      /\ request_' = request_ /\ parseok
  BY DEF EndHeaders, Parses, RetrieveLine, client, HttpInv, Fresh
<1>2. ParseContent
  BY DEF ParseContent
<1>3. /\ next_line \in Nat /\ next_line \in 1 .. Len(lines) /\ next_line <= MaxLines
      /\ next_line + 1 \in 1 .. (read \div 2) + 1
  BY TakenLine DEF EndHeaders, Parses
<1>4. NextFirst' = NextFirst
  BY <1>2, ParsingAnswersNothing
<1>5. request_.first \in Nat
  BY HttpAssumption DEF HttpInv, TypeOK
<1>6. TypeOK'
  BY <1>1, <1>3 DEF HttpInv, TypeOK
<1>7. Parser'
  <2>1. IsRequest(request_.first, next_line)
    BY <1>1, <1>3, <1>5 DEF HttpInv, Parser, IsRequest
  <2>. QED
    BY <1>1, <1>3, <1>4, <1>5, <2>1 DEF HttpInv, Parser, AtBadLine, IsRequest
<1>8. Header'
  <2> SUFFICES ASSUME NEW n \in request_.first .. next_line,
                      LastConnection(request_.first, next_line, n)
               PROVE  request_.connection = lines[n]
    BY <1>1, <1>3, <1>5 DEF Header, LastConnection
  <2>1. n \in request_.first .. next_line - 1
    BY <1>1, <1>3, <1>5 DEF LastConnection, HeaderLines
  <2>2. LastConnection(request_.first, next_line - 1, n)
    BY <1>3, <1>5, <2>1 DEF LastConnection
  <2>. QED
    BY <1>1, <2>1, <2>2 DEF HttpInv, Header
<1>9. Waiting'
  BY <1>1 DEF Waiting
<1>. QED
  BY <1>2, <1>6, <1>7, <1>8, <1>9, ParsingAnswersNothing DEF HttpInv

-----------------------------------------------------------------------------
(* After ParseContent *)

LEMMA IncompleteKeeps == ASSUME HttpInv, Incomplete PROVE HttpInv'
<1>1. /\ UNCHANGED <<lines, sent, read, shutdown_state_, responses>>
      /\ UNCHANGED <<next_line, parse_state_, parseok, request_>>
      /\ call = "parsed" /\ parseok /\ call' = "poll"
      /\ parse_state_ # "kParseGotCompleteRequest"
  BY DEF Incomplete, client, content
<1>2. NextFirst' = NextFirst /\ LastRead' = LastRead /\ ~ AtBadLine /\ ~ AtBadLine'
  BY <1>1 DEF NextFirst, LastRead, AtBadLine
<1>3. TypeOK'
  BY <1>1 DEF HttpInv, TypeOK
<1>4. Parser'
  BY <1>1, <1>2 DEF HttpInv, Parser, IsRequest
<1>5. Header' /\ Waiting' /\ Fresh'
  BY <1>1, <1>2 DEF HttpInv, Header, LastConnection, Waiting, Fresh, FindCRLF
<1>6. ResponsesInOrder' /\ CallbackContract' /\ HonoursConnectionHeader'
  BY <1>1 DEF HttpInv, ResponsesInOrder, IsRequest, CallbackContract, HonoursConnectionHeader
<1>. QED
  BY <1>3, <1>4, <1>5, <1>6 DEF HttpInv

(* What Respond adds: an answer to the lines from NextFirst to last. *)
RightAnswer(r) ==
  /\ r \in ResponseType
  /\ r.first = NextFirst /\ r.last = next_line - 1 /\ r.read = read
  /\ r.status = "reply" => IsRequest(r.first, r.last)
  /\ r.status = "400" => r.first = r.last /\ lines[r.first] \notin RequestLines
  /\ r.status = "reply" =>
       \A n \in r.first .. r.last :
         LastConnection(r.first, r.last, n) /\ lines[n] = "Close" => r.close

LEMMA Answers ==
  ASSUME HttpInv, call = "parsed", UNCHANGED <<lines, read>>, NEW r, RightAnswer(r),
         responses' = Append(responses, r), shutdown_state_' = r.close
  PROVE  /\ responses' \in Seq(ResponseType) /\ NextFirst' = next_line /\ LastRead' = read
         /\ \A k \in DOMAIN responses' : responses'[k].read <= read
         /\ ResponsesInOrder' /\ CallbackContract' /\ HonoursConnectionHeader'
<1> DEFINE len == Len(responses)
<1>1. /\ responses \in Seq(ResponseType) /\ len \in Nat /\ r \in ResponseType
      /\ next_line \in Nat /\ read \in Nat /\ 2 * (next_line - 1) <= read
      /\ ~ shutdown_state_ /\ LastRead < read
  BY Numbers DEF HttpInv, TypeOK, RightAnswer, Fresh
<1>2. /\ responses' \in Seq(ResponseType) /\ Len(responses') = len + 1
      /\ \A k \in 1 .. len : responses'[k] = responses[k]
      /\ responses'[len + 1] = r /\ responses' # <<>>
  BY <1>1
<1>3. DOMAIN responses' = 1 .. len + 1 /\ DOMAIN responses = 1 .. len
  BY <1>1, <1>2
<1>4. r.last = next_line - 1 /\ r.read = read
  BY DEF RightAnswer
<1>5. NextFirst' = next_line /\ LastRead' = read
  BY <1>1, <1>2, <1>4 DEF NextFirst, LastRead
<1>6. \A k \in DOMAIN responses' : responses'[k].read <= read
  BY <1>1, <1>2, <1>3, <1>4 DEF HttpInv, Fresh
<1>7. ResponsesInOrder'
  <2> SUFFICES ASSUME NEW k \in 1 .. len + 1
               PROVE  LET q == responses'[k] IN
                      /\ q.first = (IF k = 1 THEN 1 ELSE responses'[k - 1].last + 1)
                      /\ 2 * q.last <= q.read
                      /\ q.status = "reply" => IsRequest(q.first, q.last)
                      /\ q.status = "400" => q.first = q.last /\ lines[q.first] \notin RequestLines
    BY <1>3 DEF ResponsesInOrder, IsRequest
  <2>1. CASE k \in 1 .. len
    <3>1. k # 1 => k - 1 \in 1 .. len
      BY <1>1, <2>1
    <3>. QED
      BY <1>2, <1>3, <2>1, <3>1 DEF HttpInv, ResponsesInOrder
  <2>2. CASE k = len + 1
    <3>1. r.first = (IF k = 1 THEN 1 ELSE responses'[k - 1].last + 1)
      <4>1. CASE responses = <<>>
        BY <1>1, <2>2, <4>1 DEF RightAnswer, NextFirst
      <4>2. CASE responses # <<>>
        BY <1>1, <1>2, <2>2, <4>2 DEF RightAnswer, NextFirst
      <4>. QED
        BY <4>1, <4>2
    <3>. QED
      BY <1>1, <1>2, <1>4, <2>2, <3>1 DEF RightAnswer
  <2>. QED
    BY <1>1, <2>1, <2>2
<1>8. CallbackContract'
  <2>1. \A k \in 1 .. len : responses[k].read < read /\ ~ responses[k].close /\ responses[k].read \in Nat
    <3> SUFFICES ASSUME NEW k \in 1 .. len
                 PROVE  responses[k].read < read /\ ~ responses[k].close /\ responses[k].read \in Nat
      OBVIOUS
    <3>1. responses # <<>> /\ len \in 1 .. len
      BY <1>1
    <3>2. /\ responses[len].read < read /\ ~ responses[len].close
          /\ responses[len].read \in Nat /\ responses[k].read \in Nat
      BY <1>1, <1>3, <3>1, Bounded DEF HttpInv, CallbackContract, LastRead
    <3>3. CASE k = len
      BY <3>2, <3>3
    <3>4. CASE k < len
      <4>1. k \in 1 .. len - 1 /\ k + 1 \in 1 .. len
        BY <1>1, <3>4
      <4>2. responses[k].read < responses[k + 1].read /\ ~ responses[k].close
        BY <4>1 DEF HttpInv, CallbackContract
      <4>3. responses[k + 1].read <= read /\ responses[k + 1].read \in Nat
        BY <1>3, <4>1, Bounded
      <4>. QED
        BY <1>1, <3>2, <4>2, <4>3
    <3>. QED
      BY <1>1, <3>3, <3>4
  <2>2. \A k \in 1 .. len : responses'[k].read < responses'[k + 1].read /\ ~ responses'[k].close
    <3> SUFFICES ASSUME NEW k \in 1 .. len
                 PROVE  responses'[k].read < responses'[k + 1].read /\ ~ responses'[k].close
      OBVIOUS
    <3>1. CASE k = len
      BY <1>2, <1>4, <2>1, <3>1
    <3>2. CASE k < len
      <4>1. k \in 1 .. len - 1 /\ k + 1 \in 1 .. len
        BY <1>1, <3>2
      <4>. QED
        BY <1>2, <4>1 DEF HttpInv, CallbackContract
    <3>. QED
      BY <1>1, <3>1, <3>2
  <2>3. Len(responses') - 1 = len
    BY <1>1, <1>2
  <2>4. shutdown_state_' <=> responses' # <<>> /\ responses'[Len(responses')].close
    BY <1>2
  <2>. QED
    BY <2>2, <2>3, <2>4 DEF CallbackContract
<1>9. HonoursConnectionHeader'
  <2> SUFFICES ASSUME NEW k \in 1 .. len + 1,
                      NEW n \in responses'[k].first .. responses'[k].last,
                      responses'[k].status = "reply", lines[n] \in ConnectionHeaders,
                      \A m \in responses'[k].first .. responses'[k].last :
                        lines[m] \in ConnectionHeaders => m <= n,
                      lines[n] = "Close"
               PROVE  responses'[k].close
    BY <1>3 DEF HonoursConnectionHeader
  <2>1. CASE k \in 1 .. len
    BY <1>2, <1>3, <2>1 DEF HttpInv, HonoursConnectionHeader
  <2>2. CASE k = len + 1
    <3>1. LastConnection(r.first, r.last, n)
      BY <1>2, <2>2 DEF LastConnection
    <3>. QED
      BY <1>2, <2>2, <3>1 DEF RightAnswer, LastConnection
  <2>. QED
    BY <1>1, <2>1, <2>2
<1>. QED
  BY <1>2, <1>5, <1>6, <1>7, <1>8, <1>9

LEMMA BadRequestKeeps == ASSUME HttpInv, BadRequest PROVE HttpInv'
<1> DEFINE r == [status |-> "400", first |-> next_line - 1, last |-> next_line - 1,
                 read |-> read, close |-> TRUE]
<1>1. /\ UNCHANGED <<lines, sent, read, next_line, parse_state_, parseok, request_>>
      /\ call = "parsed" /\ ~ parseok /\ call' = "poll" /\ shutdown_state_' = TRUE
      /\ responses' = Append(responses, r)
  BY DEF BadRequest, Respond, client, content
<1>2. /\ next_line \in Nat /\ read \in Nat /\ 2 * (next_line - 1) <= read
      /\ read <= 2 * Len(lines) /\ Len(lines) \in Nat /\ Len(lines) <= MaxLines
      /\ NextFirst \in Nat /\ NextFirst >= 1
  BY Numbers, LastOne DEF HttpInv, Fresh
<1>3. /\ parse_state_ = "kParseRequestLine" /\ next_line = NextFirst + 1
      /\ lines[next_line - 1] \notin RequestLines
  BY <1>1 DEF HttpInv, Parser, AtBadLine
<1>4. RightAnswer(r)
  <2>1. r \in ResponseType
    BY <1>2, <1>3, HttpAssumption DEF ResponseType
  <2>. QED
    BY <1>2, <1>3, <2>1 DEF RightAnswer
<1>5. /\ responses' \in Seq(ResponseType) /\ NextFirst' = next_line /\ LastRead' = read
      /\ \A k \in DOMAIN responses' : responses'[k].read <= read
      /\ ResponsesInOrder' /\ CallbackContract' /\ HonoursConnectionHeader'
  <2>1. shutdown_state_' = r.close
    BY <1>1
  <2>. QED
    BY <1>1, <1>4, <2>1, Answers
<1>6. TypeOK'
  BY <1>1, <1>3, <1>5 DEF HttpInv, TypeOK
<1>7. Parser' /\ Header' /\ Waiting'
  BY <1>1, <1>3, <1>5 DEF Parser, AtBadLine, Header, Waiting
<1>8. Fresh'
  BY <1>1, <1>2, <1>5 DEF Fresh
<1>. QED
  BY <1>5, <1>6, <1>7, <1>8 DEF HttpInv

LEMMA DealWithRequestKeeps == ASSUME HttpInv, DealWithRequest PROVE HttpInv'
<1>1. /\ UNCHANGED <<lines, sent, read, next_line, parseok, request_>>
      /\ call = "parsed" /\ parse_state_ = "kParseGotCompleteRequest"
      /\ call' = "poll" /\ parse_state_' = "kParseRequestLine"
  BY DEF DealWithRequest, client
<1>2. PICK close \in HttpResponseCallback(CloseAsked) :
        /\ responses' = Append(responses,
             [status |-> "reply", first |-> request_.first, last |-> next_line - 1,
              read |-> read, close |-> close])
        /\ shutdown_state_' = (shutdown_state_ \/ close)
  BY DEF DealWithRequest, Respond
<1> DEFINE r == [status |-> "reply", first |-> request_.first, last |-> next_line - 1,
                 read |-> read, close |-> close]
<1>3. close \in BOOLEAN /\ (CloseAsked => close)
  BY Zenon DEF HttpResponseCallback, CloseAsked
<1>4. /\ next_line \in Nat /\ read \in Nat /\ 2 * (next_line - 1) <= read
      /\ read <= 2 * Len(lines) /\ Len(lines) \in Nat /\ Len(lines) <= MaxLines
      /\ NextFirst \in Nat /\ NextFirst >= 1 /\ ~ shutdown_state_
  BY <1>1, Numbers, LastOne DEF HttpInv, Fresh
<1>5. request_.first = NextFirst /\ IsRequest(request_.first, next_line - 1)
  BY <1>1 DEF HttpInv, Parser
<1>6. RightAnswer(r)
  <2>1. r \in ResponseType
    <3>1. NextFirst < next_line - 1
      BY <1>5 DEF IsRequest
    <3>. QED
      BY <1>3, <1>4, <1>5, <3>1, HttpAssumption DEF ResponseType
  <2>2. \A n \in r.first .. r.last :
          LastConnection(r.first, r.last, n) /\ lines[n] = "Close" => r.close
    <3>1. \A n \in request_.first .. next_line - 1 :
            LastConnection(request_.first, next_line - 1, n) => request_.connection = lines[n]
      BY <1>1 DEF HttpInv, Header
    <3>. QED
      BY <1>3, <3>1 DEF CloseAsked
  <2>. QED
    BY <1>5, <2>1, <2>2 DEF RightAnswer
<1>7. /\ responses' \in Seq(ResponseType) /\ NextFirst' = next_line /\ LastRead' = read
      /\ \A k \in DOMAIN responses' : responses'[k].read <= read
      /\ ResponsesInOrder' /\ CallbackContract' /\ HonoursConnectionHeader'
  <2>1. shutdown_state_' = r.close
    BY <1>2, <1>3, <1>4
  <2>. QED
    BY <1>1, <1>2, <1>6, <2>1, Answers
<1>8. shutdown_state_' \in BOOLEAN
  BY <1>2
<1>9. TypeOK'
  BY <1>1, <1>7, <1>8 DEF HttpInv, TypeOK
<1>10. Parser' /\ Header' /\ Fresh' /\ Waiting'
  BY <1>1, <1>7 DEF HttpInv, Parser, AtBadLine, Header, Fresh, Waiting
<1>. QED
  BY <1>7, <1>9, <1>10 DEF HttpInv

-----------------------------------------------------------------------------
LEMMA InvHolds == Spec => []HttpInv
<1>1. Init => HttpInv
  <2> SUFFICES ASSUME Init PROVE HttpInv
    OBVIOUS
  <2>1. TypeOK
    <3>1. lines \in Seq(Lines) /\ responses \in Seq(ResponseType) /\ Len(lines) = 0
      BY DEF Init
    <3>2. sent \in 0 .. 2 * Len(lines) /\ read \in 0 .. sent /\ next_line \in 1 .. (read \div 2) + 1
      BY <3>1 DEF Init
    <3>3. request_ \in [version : RequestLines \cup {"kUnknown"},
                         connection : ConnectionHeaders \cup {"absent"}, first : 0 .. MaxLines]
      BY HttpAssumption DEF Init
    <3>. QED
      BY <3>1, <3>2, <3>3 DEF Init, TypeOK
  <2>2. Fresh /\ Parser /\ Header /\ Waiting
    BY HttpAssumption DEF Init, Fresh, Parser, AtBadLine, Header, Waiting, FindCRLF, NextFirst
  <2>3. ResponsesInOrder /\ CallbackContract /\ HonoursConnectionHeader
    BY DEF Init, ResponsesInOrder, CallbackContract, HonoursConnectionHeader
  <2>. QED
    BY <2>1, <2>2, <2>3 DEF HttpInv
<1>2. HttpInv /\ [Next]_vars => HttpInv'
  <2> SUFFICES ASSUME HttpInv, [Next]_vars PROVE HttpInv'
    OBVIOUS
  <2>1. CASE UNCHANGED vars
    BY <2>1, SMTT(20) DEF vars, client, content, HttpInv, TypeOK, Fresh, Parser, AtBadLine, Header,
                LastConnection, Waiting, FindCRLF, NextFirst, LastRead, ResponsesInOrder,
                IsRequest, CallbackContract, HonoursConnectionHeader
  <2>2. CASE Next
    BY <2>2, SendKeeps, HandleMessageKeeps, StopKeeps, ParseRequestLineKeeps, ParseHeadersKeeps,
       EndHeadersKeeps, BadRequestKeeps, IncompleteKeeps, DealWithRequestKeeps
       DEF Next, MessageCallback, ParseContent
  <2>. QED
    BY <2>1, <2>2
<1>. QED
  BY <1>1, <1>2, PTL DEF Spec

(* The types; and no finished request is left in the parser between two    *)
(* callbacks, so that ParseContent always begins with a line of its own    *)
(* (httpserver.cc:32-35).                                                  *)
THEOREM ParserStartsClean == Spec => []TypeOK
<1>1. HttpInv => TypeOK
  BY DEF HttpInv
<1>. QED
  BY <1>1, InvHolds, PTL

(* However many lines the client sends and however they are cut into       *)
(* reads, the responses answer the lines one request after another without *)
(* a gap: each reply is to a request line with its headers and its end, a  *)
(* 400 to a line that should have been a request line                      *)
(* (httpcontent.cc:15-57).                                                 *)
THEOREM AnswersInOrder == Spec => []ResponsesInOrder
<1>1. HttpInv => ResponsesInOrder
  BY DEF HttpInv
<1>. QED
  BY <1>1, InvHolds, PTL

(* A callback sends one response at most, and none when one has closed the *)
(* connection: what TcpConnection takes for granted of its callback        *)
(* (httpserver.cc:25 and 51-53).                                           *)
THEOREM OneResponsePerCallback == Spec => []CallbackContract
<1>1. HttpInv => CallbackContract
  BY DEF HttpInv
<1>. QED
  BY <1>1, InvHolds, PTL

(* Between two callbacks a request that has been read as a whole is still  *)
(* unanswered only if it came in the same read as the one answered last    *)
(* (httpserver.cc:32-35).                                                  *)
THEOREM WaitsOnlyBehindAnother == Spec => []OnlyPipelinedWait
<1>1. HttpInv => OnlyPipelinedWait
  <2> SUFFICES ASSUME HttpInv, call = "poll", ~ shutdown_state_,
                      NEW last \in next_line .. read \div 2
               PROVE  responses # <<>> /\ responses[Len(responses)].read = read
    BY DEF OnlyPipelinedWait
  <2>1. next_line \in Nat /\ next_line >= 1 /\ read \in Nat /\ next_line <= read \div 2
    BY Numbers DEF HttpInv
  <2>2. FindCRLF /\ read # 0
    BY <2>1 DEF FindCRLF
  <2>3. LastRead = read
    BY <2>2 DEF HttpInv, Waiting
  <2>. QED
    BY <2>2, <2>3 DEF LastRead
<1>. QED
  BY <1>1, InvHolds, PTL

(* The last Connection header of a request decides: if it is Close the     *)
(* response closes the connection, whatever headers_ holds of the requests *)
(* before it (httprequest.cc:85-94, httpcontent.h:21-25).                  *)
THEOREM LastConnectionHeaderDecides == Spec => []HonoursConnectionHeader
<1>1. HttpInv => HonoursConnectionHeader
  BY DEF HttpInv
<1>. QED
  BY <1>1, InvHolds, PTL
=============================================================================
