--------------------------------- MODULE Replies ---------------------------------
(***************************************************************************)
(* How a reply reaches Telegram (telegram_interface/tg_format.py): blocks  *)
(* of HTML packed into messages, a block too long cut into pieces of plain *)
(* text, and plain text for all that is left once a message is rejected.   *)
(* A text is a sequence of characters; Newline is one of them, the others  *)
(* are told apart by two numbers.  The HTML of a block is as long as its   *)
(* text and what tags and escapes add.                                     *)
(***************************************************************************)
EXTENDS Integers, SequencesExt

CONSTANTS MaxLen,   \* MAX_LEN, Telegram's limit on a message
          Slack,    \* what a piece leaves for its escapes: 200
          Blocks,   \* bound: the blocks that occur, [text, extra, dense]
          MostBlocks

ASSUME RepliesBounds ==
  /\ MaxLen \in Nat /\ Slack \in Nat /\ MaxLen > Slack + 1 /\ MostBlocks \in Nat
  /\ Blocks \subseteq [text : Seq(Nat \X Nat) \ {<<>>}, extra : Nat, dense : BOOLEAN]

VARIABLES reply,      \* the blocks of the reply
          bare,       \* whether it renders to no block: its one block is its text as written
          messages,   \* what is still to be sent as HTML
          rest,       \* what is still to be sent as plain text
          delivered,  \* the texts that have arrived, in order
          sending     \* html, plain, done, lost

replyvars == <<reply, bare, messages, rest, delivered, sending>>

Newline == <<0, 0>>

\* The blocks of a reply, each character numbered by its block and its place in it.
Numbered(blocks) ==
  [i \in DOMAIN blocks |->
     [blocks[i] EXCEPT !.text = [k \in DOMAIN @ |-> IF @[k] = Newline THEN Newline ELSE <<i, k>>]]]

RepliesInit ==
  /\ \E n \in 1 .. MostBlocks : \E blocks \in [1 .. n -> Blocks] :
       reply = Numbered(blocks) /\ bare \in {b \in BOOLEAN : b => n = 1}
  /\ messages = <<>> /\ rest = <<>> /\ delivered = <<>> /\ sending = "render"

--------------------------------------------------------------------------------
Skip(text) == LET solid == {k \in DOMAIN text : text[k] # Newline}      \* lstrip("\n")
              IN  IF solid = {} THEN <<>> ELSE SubSeq(text, CHOOSE k \in solid : \A j \in solid : k <= j, Len(text))

\* _pieces: at the last line break of the second half, or at the limit.
CutAt(text, limit) ==
  LET breaks == {k \in 1 .. limit : text[k] = Newline /\ k - 1 > limit \div 2}
  IN  IF breaks = {} THEN limit ELSE (CHOOSE k \in breaks : \A j \in breaks : j <= k) - 1

Piece(text, limit) == IF Len(text) <= limit THEN text ELSE SubSeq(text, 1, CutAt(text, limit))
Beyond(text, limit) == IF Len(text) <= limit THEN <<>> ELSE Skip(SubSeq(text, CutAt(text, limit) + 1, Len(text)))

\* One round of the loop: what was cut off, and what is left.
CutOff(state, limit) ==
  IF state.left = <<>> THEN state
  ELSE [out |-> Append(state.out, Piece(state.left, limit)), left |-> Beyond(state.left, limit)]
Cutting(text, limit) ==
  LET cut[n \in 0 .. Len(text)] == IF n = 0 THEN [out |-> <<>>, left |-> text] ELSE CutOff(cut[n - 1], limit)
  IN  cut
Pieces(text, limit) == Cutting(text, limit)[Len(text)].out

\* A message: its text, and the length of its HTML.
Message(text, length) == [text |-> text, length |-> length]
Html(block) == Message(block.text, Len(block.text) + block.extra)

\* An escape writes more than one character for one; a dense block is full of them.
Escaped(piece, dense) == Message(piece, IF dense THEN 2 * Len(piece) ELSE Len(piece))
InPieces(block) ==
  LET pieces == Pieces(block.text, MaxLen - Slack)
  IN  [i \in DOMAIN pieces |-> Escaped(pieces[i], block.dense)]

Join(m, n) == Message(m.text \o <<Newline, Newline>> \o n.text, m.length + 2 + n.length)
Joined(cur, block) == IF cur = <<>> THEN Html(block) ELSE Join(cur[1], Html(block))

\* Mutant: what has been gathered is dropped when a block is too long.
PackDropping(acc, block) ==
  IF Html(block).length > MaxLen THEN [out |-> acc.out \o InPieces(block), cur |-> <<>>]
  ELSE IF Joined(acc.cur, block).length > MaxLen THEN [out |-> acc.out \o acc.cur, cur |-> <<Html(block)>>]
  ELSE [out |-> acc.out, cur |-> <<Joined(acc.cur, block)>>]

\* The loop of to_chunks: blocks are gathered as long as they fit; one too long is cut.
Pack(acc, block) ==
  IF Html(block).length > MaxLen THEN [out |-> acc.out \o acc.cur \o InPieces(block), cur |-> <<>>]
  ELSE IF Joined(acc.cur, block).length > MaxLen THEN [out |-> acc.out \o acc.cur, cur |-> <<Html(block)>>]
  ELSE [out |-> acc.out, cur |-> <<Joined(acc.cur, block)>>]
Packing(blocks) ==
  LET packed[n \in 0 .. Len(blocks)] ==
        IF n = 0 THEN [out |-> <<>>, cur |-> <<>>] ELSE Pack(packed[n - 1], blocks[n])
  IN  packed
Packed(blocks) == LET all == Packing(blocks)[Len(blocks)] IN all.out \o all.cur

(* A text without a block (link definitions only, a table without a row) is
   escaped and cut at the limit; an escape cut in two is no character. *)
CutShort(block) ==
  LET fits == IF block.dense THEN MaxLen \div 2 ELSE MaxLen
  IN  IF Len(block.text) <= fits THEN Escaped(block.text, block.dense)
      ELSE Message(SubSeq(block.text, 1, fits), MaxLen)

\* to_chunks: what was packed, or the text itself.
ToChunks(blocks, empty) == IF empty THEN <<CutShort(blocks[1])>> ELSE Packed(blocks)

PlainOf(msgs) == FlattenSeq([i \in DOMAIN msgs |-> Pieces(msgs[i].text, MaxLen)])
Line(blocks, i) == IF i = 1 THEN blocks[i].text ELSE <<Newline, Newline>> \o blocks[i].text
WholeText(blocks) == FlattenSeq([i \in DOMAIN blocks |-> Line(blocks, i)])

\* A reply that cannot be rendered goes out as plain text.
Render(fails) ==
  /\ sending = "render"
  /\ IF fails THEN sending' = "plain" /\ rest' = Pieces(WholeText(reply), MaxLen) /\ UNCHANGED messages
     ELSE sending' = "html" /\ messages' = ToChunks(reply, bare) /\ UNCHANGED rest
  /\ UNCHANGED <<reply, bare, delivered>>

\* send: a message Telegram takes as HTML; it is no longer than the limit.
SendHtml ==
  /\ sending = "html" /\ messages # <<>> /\ messages[1].length <= MaxLen
  /\ delivered' = Append(delivered, messages[1].text) /\ messages' = Tail(messages)
  /\ UNCHANGED <<reply, bare, rest, sending>>

\* BadRequest: this message and all after it go out as plain text.
RejectHtml ==
  /\ sending = "html" /\ messages # <<>>
  /\ rest' = PlainOf(messages) /\ messages' = <<>> /\ sending' = "plain"
  /\ UNCHANGED <<reply, bare, delivered>>

SendPlain ==
  /\ sending = "plain" /\ rest # <<>>
  /\ delivered' = Append(delivered, rest[1]) /\ rest' = Tail(rest)
  /\ UNCHANGED <<reply, bare, messages, sending>>

Sent ==
  /\ \/ sending = "html" /\ messages = <<>>
     \/ sending = "plain" /\ rest = <<>>
  /\ sending' = "done" /\ UNCHANGED <<reply, bare, messages, rest, delivered>>

\* Any other error is the caller's; what is left is not sent.
Fail ==
  /\ sending \in {"html", "plain"}
  /\ sending' = "lost" /\ UNCHANGED <<reply, bare, messages, rest, delivered>>

RepliesNext == (\E fails \in BOOLEAN : Render(fails)) \/ SendHtml \/ RejectHtml \/ SendPlain \/ Sent \/ Fail
RepliesSpec == RepliesInit /\ [][RepliesNext]_replyvars

--------------------------------------------------------------------------------
\* Line breaks do not count: the cutting leaves some out.
Solid(text) == FlattenSeq([k \in DOMAIN text |-> IF text[k] = Newline THEN <<>> ELSE <<text[k]>>])
Arrived == Solid(FlattenSeq(delivered))

\* What a reply comes to: its text, or of one without a block what the cut leaves.
ComesTo == {WholeText(reply)} \cup (IF bare THEN {CutShort(reply[1]).text} ELSE {})

(* However a reply is split, and wherever its HTML is rejected, its characters
   arrive in their order, none of them twice, no message is longer than Telegram
   takes, and when the sending ends without another error all of them have
   arrived, unless it renders to no block and is cut at the limit: NothingIsCut
   (tg_format.py:143-195). *)
RepliesWhole ==
  /\ IsPrefix(Arrived, Solid(WholeText(reply)))
  /\ \A i \in DOMAIN delivered : Len(delivered[i]) <= MaxLen
  /\ sending = "done" => \E text \in ComesTo : Arrived = Solid(text)

(* tg_format.py:5: "splits long replies at block boundaries instead of cutting
   them".  A reply that renders to no block is cut at the limit, and nothing
   says so (tg_format.py:171). *)
NothingIsCut == sending = "done" => Arrived = Solid(WholeText(reply))
================================================================================
