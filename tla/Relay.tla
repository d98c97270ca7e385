------------------------------- MODULE Relay -------------------------------
(***************************************************************************)
(* The way of the bytes through a worker, in one direction: baseRead into  *)
(* a buffer, processClient or processRedis into an array of buffers,       *)
(* mvArrayBuff to the array of the other side, baseWrite.  With `side'     *)
(* "client" it is a client's commands on their way to Redis (readC,        *)
(* writeR), with "redis" the replies to commands a client has sent in one  *)
(* go (readR, writeC).  Module Worker takes whole commands and replies;    *)
(* this module shows when that is right, and what happens otherwise.       *)
(*                                                                         *)
(* The stream that arrives is a sequence of tokens: the first character of *)
(* a line with the text after it, CR, LF, or the body of a bulk string     *)
(* (whatever its length).  TCP cuts it anywhere.  A token on its way is    *)
(* named by its position; CR and LF, which the code writes anew, are left  *)
(* out, and 0 is the text of an error.                                     *)
(*                                                                         *)
(* A write past the end of an allocation, or to its old place after        *)
(* realloc, either does no harm or ends the process ("smashed").           *)
(***************************************************************************)
EXTENDS ParseInt, FiniteSetsExt, SequencesExt

CONSTANTS Scripts,      \* what arrives: records [side, msgs], see Message
          PerIobuf,     \* PER_IOBUF_SIZE, in tokens
          Zeroed        \* slots of an array that newBuffArr and clearArrayBuff
                        \* set to NULL: PER_BUF_ARRAY_SIZE bytes, not pointers

ASSUME RelayAssumption == PerIobuf \in Nat \ {0} /\ Zeroed \in Nat

(* The messages: a line, an error of the peer, a bulk string, an array (of *)
(* bulk strings, as a client's command is, or of anything).                *)
TextLine(k, text) ==
    <<[k |-> k, v |-> text], [k |-> "CR", v |-> <<>>], [k |-> "LF", v |-> <<>>]>>
Line         == TextLine("+", <<>>)
Bad          == TextLine("?", <<>>)
Number(text) == TextLine(":", text)
Body         == <<[k |-> "body", v |-> <<>>], [k |-> "CR", v |-> <<>>], [k |-> "LF", v |-> <<>>]>>
Bulk(text)   == TextLine("$", text) \o
                (IF ~IsNumeral(text) \/ Denotes(text) > 0 THEN Body
                 ELSE IF Denotes(text) = 0 THEN Tail(Body) ELSE <<>>)
ArrayOf(messages) == TextLine("*", <<Len(messages)>>) \o FlattenSeq(messages)
Array(texts) == ArrayOf([i \in DOMAIN texts |-> Bulk(texts[i])])

VARIABLES
    side,       \* "client" or "redis": who sends, fixed
    stream,     \* all that is ever sent: tokens [k, v, m], m the message, fixed
    arrived,    \* c->cmd->wpos, counted from the start of the stream
    rpos,       \* c->cmd->rpos, likewise
    multi,      \* c->multiBulkLen
    bulk,       \* c->bulkLen
    left,       \* c->rNum: replies to come ("redis")
    cmdNum,
    cmds,       \* c->cmds: the contents of its buffers
    pendding,   \* c->cmds->pendding
    middle,     \* the other side's array: the buffers still to be sent
    gone,       \* ... and the number of those before them (its rpos)
    hpos,       \* rpos of the first of them
    got,        \* what the other side has received
    isQuit,     \* the client is to be closed
    status,     \* "ok", "orphan" (the connection was deleted as one without a
                \* client), "smashed" or "crashed"
    ends        \* history: where reads have ended, see EndKind
parser == <<rpos, multi, bulk, left, cmdNum, cmds, pendding>>
vars == <<side, stream, arrived, parser, middle, gone, hpos, got, isQuit, status, ends>>

Messages == stream[Len(stream)].m

Init ==
    \E s \in Scripts :
        /\ side = s.side
        /\ stream = FlattenSeq([i \in DOMAIN s.msgs |->
                        [j \in DOMAIN s.msgs[i] |->
                            [k |-> s.msgs[i][j].k, v |-> s.msgs[i][j].v, m |-> i]]])
        /\ arrived = 0 /\ rpos = 0
        /\ multi = 0 /\ bulk = 0
        /\ left = IF s.side = "redis" THEN Len(s.msgs) ELSE 0
        /\ cmdNum = 0 /\ cmds = <<>> /\ pendding = FALSE
        /\ middle = <<>> /\ gone = 0 /\ hpos = 0
        /\ got = <<>> /\ isQuit = FALSE /\ status = "ok" /\ ends = {}

-----------------------------------------------------------------------------
(* The parser works on a record of its fields, with the outcome in `out'   *)
(* ("ok", "more" or "error") and `risk' when memory past a buffer was      *)
(* overwritten; w is the write position of the buffer.                     *)
Parser == [rpos |-> rpos, multi |-> multi, bulk |-> bulk, left |-> left,
           num |-> cmdNum, cmds |-> cmds, pend |-> pendding, out |-> "ok", risk |-> FALSE]

Kind(i, w) == IF i \in 1 .. w THEN stream[i].k ELSE "NUL"

NextCR(i, w) == LET at == {j \in i + 1 .. w : stream[j].k = "CR"}
                IN  IF at = {} THEN 0 ELSE Min(at)

Fail(p) == [p EXCEPT !.out = "error"]
More(p) == [p EXCEPT !.out = "more"]
Done(p) == [p EXCEPT !.out = "ok"]

(* addReplyBySize and addBuffer: to the buffer of that number, or a new    *)
(* one at the end.                                                         *)
AddBuffer(array, alen, add) ==
    IF alen < Len(array) THEN [array EXCEPT ![alen + 1] = @ \o add]
                         ELSE Append(array, add)

Reply(p, from, to) ==
    [p EXCEPT !.cmds = AddBuffer(@, p.num, [i \in 1 .. to - from |-> from + i])]
ReplyError(p) ==
    [p EXCEPT !.cmds = AddBuffer(@, p.num, <<0>>), !.num = @ + 1]

(* parseInputBuffNum: the number after the first character of the line at  *)
(* rpos, and the position behind the line.                                 *)
Numeral(p, w) ==
    LET cr == NextCR(p.rpos, w)
        n  == parseInt(stream[p.rpos + 1].v)
    IN  IF cr = 0 THEN [out |-> "more", num |-> 0, next |-> p.rpos]
        ELSE IF Kind(cr + 1, w) # "LF" \/ ~n.ok
        THEN [out |-> "error", num |-> 0, next |-> p.rpos]
        ELSE [out |-> "ok", num |-> n.num, next |-> cr + 1]

(* srangeBuff moves what is left to the front, and then clears as many     *)
(* bytes behind it as the whole buffer has.                                *)
Srange(p, w) == [p EXCEPT !.risk = @ \/ p.rpos < w]

NextArg(p) == [p EXCEPT !.bulk = 0, !.multi = @ - 1]

(* The end of processCmds.                                                 *)
EndCmd_StillPendding(p, w) == Done(Srange([p EXCEPT !.num = @ + 1], w))
EndCmd(p, w) == Done(Srange([p EXCEPT !.num = @ + 1, !.pend = FALSE], w))

RECURSIVE processCmds(_, _, _), Argument(_, _, _)
processCmds(p, w, isClient) ==
    IF p.multi = 0 THEN EndCmd(p, w)
    ELSE IF p.bulk > 0 THEN Argument(p, w, isClient)
    ELSE IF Kind(p.rpos + 1, w) # "$" THEN Fail(p)
    ELSE LET n == Numeral(p, w)
         IN  IF n.out # "ok" THEN [p EXCEPT !.out = n.out]
             ELSE IF isClient /\ n.num <= 0 THEN Fail(p)
             ELSE Argument([Reply(p, p.rpos, p.rpos + 1) EXCEPT
                                !.bulk = IF n.num > 0 THEN n.num ELSE 0,
                                !.rpos = n.next], w, isClient)

Argument(p, w, isClient) ==
    IF p.bulk = 0 THEN processCmds(NextArg(p), w, isClient)
    ELSE IF w - p.rpos < 3 THEN More(p)
    ELSE IF Kind(p.rpos + 2, w) # "CR" \/ Kind(p.rpos + 3, w) # "LF" THEN Fail(p)
    ELSE processCmds(NextArg([Reply(p, p.rpos, p.rpos + 1) EXCEPT !.rpos = @ + 3]),
                     w, isClient)

Pending(p) == [p EXCEPT !.pend = TRUE]

-----------------------------------------------------------------------------
RECURSIVE processClient(_, _), AfterCommand(_, _)
processClient(p, w) ==
    IF p.rpos >= w THEN Done(p)
    ELSE IF p.multi > 0 THEN AfterCommand(processCmds(Pending(p), w, TRUE), w)
    ELSE IF Kind(p.rpos + 1, w) # "*" THEN Fail(p)
    ELSE LET n == Numeral(p, w)
         IN  IF n.out = "error" THEN Fail(p)
             ELSE IF n.out = "more" THEN Done(p)
             ELSE AfterCommand(processCmds(
                      Pending([Reply(p, p.rpos, p.rpos + 1) EXCEPT
                                  !.multi = n.num % 2 ^ Bits, !.rpos = n.next]), w, TRUE), w)
AfterCommand(p, w) ==
    IF p.out = "error" THEN p
    ELSE IF p.out = "more" THEN Done(p)
    ELSE processClient([p EXCEPT !.multi = 0], w)

(* The first line of a reply.  Only parseInputBuffNum looks for the LF; an *)
(* unexpected line is reported and then passed on.                         *)
PassLine_OneShort(p, cr) == [Reply(p, p.rpos, cr - 1) EXCEPT !.rpos = cr]
PassLine(p, cr)          == [Reply(p, p.rpos, cr - 1) EXCEPT !.rpos = cr + 1]

FirstLine(p, w, cr) ==
    LET k == Kind(p.rpos + 1, w)
        n == parseInt(stream[p.rpos + 1].v)
    IN  IF k = "$" THEN [p EXCEPT !.multi = 1]
        ELSE IF k \in {":", "*"} /\ ~n.ok THEN Fail(p)
        ELSE IF k \in {"+", ":"} THEN PassLine(p, cr)
        ELSE IF k = "*"
        THEN [PassLine(p, cr) EXCEPT !.multi = IF n.num > 0 THEN n.num ELSE 0]
        ELSE PassLine(ReplyError(p), cr)

RECURSIVE processRedis(_, _), AfterLine(_, _), AfterReply(_, _)
processRedis(p, w) ==
    IF p.left = 0 THEN Done(p)
    ELSE IF p.multi > 0 THEN AfterLine(Pending(p), w)
    ELSE IF NextCR(p.rpos, w) = 0 THEN Done(Pending(p))
    ELSE AfterLine(FirstLine(Pending(p), w, NextCR(p.rpos, w)), w)
AfterLine(p, w) ==
    IF p.out = "error" THEN p
    ELSE AfterReply(IF p.multi > 0 THEN processCmds(p, w, FALSE) ELSE p, w)
AfterReply(p, w) ==
    IF p.out = "error" THEN p
    ELSE IF p.out = "more" THEN Done(p)
    ELSE processRedis([p EXCEPT !.multi = 0, !.pend = FALSE, !.left = @ - 1], w)

-----------------------------------------------------------------------------
(* mvArrayBuff moves the buffers of complete messages, and then clears the *)
(* array, the pending one with them; when all the array holds is a pending *)
(* message nothing is moved, and when it holds nothing at all the number   *)
(* of buffers to move wraps.                                               *)
CopyNum_OneLess(p) == Len(p.cmds) - 1
CopyNum(p)         == Len(p.cmds) - (IF p.pend THEN 1 ELSE 0)

Kept(p) == IF CopyNum(p) < 1 THEN p.cmds ELSE <<>>

(* A slot the array was never cleared for holds what malloc left, or a     *)
(* pointer cut in half.                                                    *)
WildSlot(p) == \/ Len(p.cmds) > Zeroed
               \/ CopyNum(p) > 0 /\ gone + Len(middle) + CopyNum(p) > Zeroed

(* Each of these writes beyond a buffer, or to where it was before realloc *)
(* moved it: reading behind bytes that are kept, adding to a full buffer.  *)
GrowsRead  == rpos < arrived \/ (side = "client" /\ multi > 0)
GrowsAdd(p) == \E i \in DOMAIN p.cmds : Len(p.cmds[i]) > PerIobuf

Store(p) ==
    /\ rpos' = p.rpos
    /\ multi' = p.multi
    /\ bulk' = p.bulk
    /\ left' = p.left
    /\ cmdNum' = 0
    /\ pendding' = p.pend
    /\ cmds' = Kept(p)
    /\ middle' = middle \o SubSeq(p.cmds, 1, CopyNum(p))
    /\ UNCHANGED <<gone, hpos, got, isQuit>>

Ends(s) ==
    /\ status' = s
    /\ UNCHANGED <<parser, middle, gone, hpos, got, isQuit>>

Clip_Never(p, w) == p
Clip(p, w)       == [p EXCEPT !.rpos = IF @ > w THEN w ELSE @]

(* readC and readR, from the parser on.                                    *)
Handle(p, w) ==
    \/ /\ p.out = "error"
       /\ isQuit' = TRUE
       /\ UNCHANGED <<parser, middle, gone, hpos, got, status>>
    \/ /\ p.out = "ok"
       /\ IF CopyNum(p) < 0 THEN Ends("crashed")
          ELSE \/ Store(p) /\ UNCHANGED status
               \/ WildSlot(p) /\ Ends("crashed")
               \/ (p.risk \/ GrowsAdd(p) \/ GrowsRead) /\ Ends("smashed")

(* Where a read ends: at the end of the stream or of a message, in the     *)
(* first line of one, between CR and LF, between the elements of an array, *)
(* or elsewhere.                                                           *)
EndKind(w) ==
    IF w = Len(stream) THEN "all"
    ELSE IF stream[w].k = "CR" THEN "crlf"
    ELSE IF stream[w + 1].m # stream[w].m THEN "message"
    ELSE IF w = 1 \/ stream[w - 1].m # stream[w].m THEN "head"
    ELSE IF stream[w + 1].k \notin {"CR", "LF", "body"} THEN "element"
    ELSE "inside"

Arrives(w) ==
    /\ arrived' = w
    /\ ends' = ends \cup {EndKind(w)}
    /\ UNCHANGED <<side, stream>>

ReadC ==
    /\ side = "client" /\ ~isQuit /\ status = "ok"
    /\ \E w \in arrived + 1 .. Len(stream) :
           Arrives(w) /\ Handle(processClient(Parser, w), w)

(* readR shifts its buffer at the end; when the last reply is through the  *)
(* connection goes back to the pool, and what then arrives on it makes     *)
(* readR delete it.                                                        *)
ReadR ==
    /\ side = "redis" /\ ~isQuit /\ status = "ok"
    /\ \E w \in arrived + 1 .. Len(stream) :
           /\ Arrives(w)
           /\ IF left = 0 THEN Ends("orphan")
              ELSE LET p == processRedis(Parser, w)
                   IN  Handle(Clip(Srange(p, w), w), w)

(* writeR and writeC: baseWrite sends n buffers, no more than PerIobuf of  *)
(* each, takes each for sent, and j tokens of the next.  With the last one *)
(* the array is cleared.                                                   *)
Chunk(i) ==
    LET rest == IF i = 1 THEN SubSeq(middle[1], hpos + 1, Len(middle[1])) ELSE middle[i]
    IN  SubSeq(rest, 1, Min({PerIobuf, Len(rest)}))

HeadPos_Forgotten(n, j) == j
HeadPos(n, j)           == IF n = 0 THEN hpos + j ELSE j

Write ==
    /\ status \in {"ok", "orphan"}
    /\ \E n \in 0 .. Len(middle) :
           \E j \in 0 .. (IF n < Len(middle) THEN Len(Chunk(n + 1)) - 1 ELSE 0) :
               /\ n + j > 0
               /\ got' = got \o FlattenSeq([i \in 1 .. n |-> Chunk(i)])
                             \o (IF j = 0 THEN <<>> ELSE SubSeq(Chunk(n + 1), 1, j))
               /\ middle' = SubSeq(middle, n + 1, Len(middle))
               /\ hpos' = HeadPos(n, j)
               /\ gone' = IF n = Len(middle) THEN 0 ELSE gone + n
               /\ UNCHANGED <<side, stream, arrived, parser, isQuit, status, ends>>

Next == ReadC \/ ReadR \/ Write

Spec == Init /\ [][Next]_vars

-----------------------------------------------------------------------------
Tokens(kinds) == {i \in DOMAIN stream : stream[i].k \in kinds}
Payload == Tokens({"+", ":", "?", "$", "*", "body"})
Numbers == Tokens({":", "$", "*"})

TypeOK ==
    /\ side \in {"client", "redis"}
    /\ arrived \in 0 .. Len(stream) /\ rpos \in 0 .. arrived
    /\ multi \in 0 .. MaxUnsigned /\ bulk \in 0 .. MaxSigned
    /\ left \in 0 .. Messages /\ cmdNum \in 0 .. Messages
    /\ cmds \in Seq(Seq(0 .. Len(stream))) /\ middle \in Seq(Seq(0 .. Len(stream)))
    /\ pendding \in BOOLEAN /\ gone \in Nat
    /\ hpos \in 0 .. (IF middle = <<>> THEN 0 ELSE Len(middle[1]) - 1)
    /\ got \in Seq(0 .. Len(stream)) /\ isQuit \in BOOLEAN
    /\ status \in {"ok", "orphan", "smashed", "crashed"}
    /\ ends \subseteq {"all", "crlf", "message", "head", "element", "inside"}

(* Whatever a read cuts off, what is passed on is never out of order, and  *)
(* never sent twice; and the other side gets nothing but what was sent,    *)
(* unless a read ends between CR and LF or a reply is an empty string,     *)
(* whose CR and LF the parser takes for another line.                      *)
EmptyString == side = "redis" /\ \E i \in Tokens({"$"}) : stream[i].v = <<0>>
InOrder ==
    LET sent == SelectSeq(got, LAMBDA t : t # 0)
    IN  /\ \A i, j \in DOMAIN sent : i < j => sent[i] < sent[j]
        /\ ToSet(got) \subseteq Payload \/ "crlf" \in ends \/ EmptyString

(* One message at a time arrives whole, however it is cut, unless the      *)
(* worker gives up; so do several that each arrive in one piece (of        *)
(* replies, two), as long as together they fit an I/O buffer.              *)
Gentle == ends \subseteq {"message", "all"} /\ (side = "redis" => Messages <= 2)
AllThrough ==
    /\ arrived = Len(stream) /\ middle = <<>> /\ status = "ok" /\ ~isQuit
    /\ Messages = 1 \/ Gentle
    /\ Cardinality(Payload) <= PerIobuf /\ ~EmptyString
    => Payload \subseteq ToSet(got)

(* A client is closed only for a malformed command, for a number with a    *)
(* digit 0 after the first (which parseInt takes for an error), for an     *)
(* array that holds anything but bulk strings (multibulk.c:68), or because *)
(* a read ended between CR and LF or between the elements of an array; the *)
(* worker crashes only when a read of a reply ended in its first line or   *)
(* inside one of several messages, or when an array had more buffers than  *)
(* were cleared: one command at a time never crashes it, however cut.      *)
InArray(i) == i # 1 /\ stream[i - 1].m = stream[i].m
Refusable(i) ==
    \/ HasInnerZero(stream[i].v) \/ ~IsNumeral(stream[i].v)
    \/ side = "client" /\ Denotes(stream[i].v) <= 0
EndsOnly ==
    /\ isQuit => \/ {"crlf", "element"} \cap ends # {}
                 \/ Tokens({"?"}) # {} \/ \E i \in Numbers : Refusable(i)
                 \/ \E i \in Tokens({"+", ":", "*"}) : InArray(i)
    /\ status = "crashed" =>
           \/ side = "redis" /\ "head" \in ends
           \/ Messages > 1 /\ ~Gentle
           \/ Messages > Zeroed \/ EmptyString

(* The length of the string under way is the number that was sent, however *)
(* long its text: nothing wraps.                                           *)
NumbersRight ==
    bulk > 0 => /\ stream[rpos - 2].k = "$" /\ IsNumeral(stream[rpos - 2].v)
                /\ bulk = Denotes(stream[rpos - 2].v)

(* A connection whose last reply was passed on has nothing unread, and is  *)
(* not deleted in the pool, unless a read ended between CR and LF or a     *)
(* reply was an empty string.                                              *)
CleanReturn ==
    side = "redis" /\ left = 0 =>
        \/ rpos = arrived /\ status # "orphan"
        \/ "crlf" \in ends \/ EmptyString
=============================================================================
