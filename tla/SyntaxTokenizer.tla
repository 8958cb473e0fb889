--------------------------- MODULE SyntaxTokenizer --------------------------
(***************************************************************************)
(* A SyntaxParser fed an input in chunks of any size, and finished at any  *)
(* point between them.                                                     *)
(***************************************************************************)
EXTENDS SyntaxParser

CONSTANTS
  Limits,  \* the payload limits of with_payload_limit that are looked at
  Inputs   \* what the terminal may send: sequences of bytes

ASSUME LimitsAssumption == Limits \subseteq Nat
ASSUME InputsAssumption == Inputs \subseteq Seq(Byte)

VARIABLES
  parser,   \* the SyntaxParser, with the unread bytes of the chunk it is fed
  tokens,   \* all tokens returned so far
  input,    \* what the terminal sends
  fed,      \* how many bytes of it were fed
  finished  \* finish was called

vars == <<parser, tokens, input, fed, finished>>

Init ==
  /\ \E limit \in Limits : parser = Ground(limit, <<>>)
  /\ tokens = <<>>
  /\ input \in Inputs
  /\ fed = 0 /\ finished = FALSE

Took(outcome) ==
  /\ parser' = outcome.parser
  /\ tokens' = tokens \o outcome.tokens

feed ==
  /\ ~ finished /\ parser.rest = <<>>
  /\ \E n \in 1 .. Len(input) - fed :
       /\ parser' = fed_with(parser, SubSeq(input, fed + 1, fed + n))
       /\ fed' = fed + n
  /\ UNCHANGED <<tokens, input, finished>>

Scan ==
  /\ parser.rest # <<>>
  /\ Took(Turn(parser))
  /\ UNCHANGED <<input, fed, finished>>

finish ==
  /\ ~ finished /\ parser.rest = <<>>
  /\ Took(flushed(parser))
  /\ finished' = TRUE
  /\ UNCHANGED <<input, fed>>

Next == feed \/ Scan \/ finish

Spec == Init /\ [][Next]_vars

-----------------------------------------------------------------------------
Parser ==
  [ limit : Limits, mode : Mode, kind : {"none", "Osc", "Dcs", "Apc"},
    kept : Seq(Byte), intro : 0 .. 2, start : Nat, dropped : Nat,
    held : Seq(Byte), first : BOOLEAN, rest : Seq(Byte) ]

TypeOK ==
  /\ parser \in Parser
  /\ tokens \in Seq(Tokens)
  /\ input \in Seq(Byte) /\ fed \in 0 .. Len(input)
  /\ finished \in BOOLEAN

(***************************************************************************)
(* Between two calls the parser is within its bound.                       *)
(***************************************************************************)
MemoryIsBounded == Bounded(parser)

(***************************************************************************)
(* Split equivalence: the tokens, and what is pending, are those of the    *)
(* same input in one chunk.                                                *)
(***************************************************************************)
SplitEquivalent ==
  parser.rest = <<>> =>
    LET whole == Drained(fed_with(Ground(parser.limit, <<>>), Take(input, fed)))
        ended == flushed(whole.parser)
    IN IF finished THEN /\ parser = ended.parser
                        /\ tokens = whole.tokens \o ended.tokens
       ELSE parser = whole.parser /\ tokens = whole.tokens

(***************************************************************************)
(* Reconstruction: the tokens and what is pending are the input, in order  *)
(* and byte for byte, but for the bytes a string counts as dropped between *)
(* what it kept and what ended it.                                         *)
(***************************************************************************)
\* Where in the input each of some tokens ends.
ends(some) ==
  LET after[i \in 0 .. Len(some)] ==
        IF i = 0 THEN 0 ELSE after[i - 1] + Len(some[i].raw) + some[i].dropped
  IN  after

\* A token is what lies between two positions, its limit used up if it lost any.
spans(t, from, to) ==
  LET ending == to - Len(t.tail)
      lost_from == ending - t.dropped
  IN  /\ t.raw = SubSeq(input, from + 1, lost_from) \o SubSeq(input, ending + 1, to)
      /\ t.tail = SubSeq(input, ending + 1, to)
      /\ t.dropped > 0 => t.type \in {"Osc", "Dcs", "Apc"} /\ lost_from - from >= parser.limit

EveryByteIsAccountedFor ==
  LET at == ends(tokens)
      last == at[Len(tokens)]
      held_at == last + Len(parser.kept) + parser.dropped
      rest_at == held_at + Len(parser.held)
  IN  /\ \A i \in 1 .. Len(tokens) : spans(tokens[i], at[i - 1], at[i])
      /\ parser.kept = SubSeq(input, last + 1, last + Len(parser.kept))
      /\ parser.held = SubSeq(input, held_at + 1, rest_at)
      /\ parser.rest = SubSeq(input, rest_at + 1, fed) /\ rest_at <= fed

(***************************************************************************)
(* A paste is opaque and ends at its first end bracket: its payload, over  *)
(* all segments, contains none, also not with the bytes that are held.     *)
(***************************************************************************)
\* What the paste has brought with a segment behind the bytes before.
Brings(t, before) ==
  (IF "first" \in t.flags THEN <<>> ELSE before) \o Take(t.raw, Len(t.raw) - Len(t.tail))

payloads(some) ==
  LET after[i \in 0 .. Len(some)] ==
        IF i = 0 THEN <<>> ELSE Brings(some[i], after[i - 1])
  IN  after

contains_end(s) ==
  \E end \in PasteEnds : \E n \in 0 .. Len(s) - Len(end) :
    SubSeq(s, n + 1, n + Len(end)) = end

pasted(p, before) == (IF p.first THEN <<>> ELSE before) \o p.kept \o p.held

PasteEndsAtItsBracket ==
  LET payload == payloads(tokens)
  IN /\ \A i \in 1 .. Len(tokens) :
          tokens[i].type = "Paste" => ~ contains_end(payload[i])
     /\ parser.mode = "InPaste" => ~ contains_end(pasted(parser, payload[Len(tokens)]))

=============================================================================
