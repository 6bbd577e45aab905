------------------------------- MODULE Prompts -------------------------------
(***************************************************************************)
(* How a question and a state become the token sequence of a prompt        *)
(* (prompts.py, prepared.py) and how prompts become a padded batch.        *)
(*                                                                         *)
(* A text is the sequence of its tokens: words, and the mask token, which  *)
(* the tokenizer recognises inside texts.  Positions count from 1.         *)
(***************************************************************************)
EXTENDS Integers, Sequences, SequencesExt, FiniteSetsExt

CONSTANTS
  MaxLen,      \* agent.cfg["max_len"], 512
  HeadMaxLen,  \* agent.cfg["head_max_len"], 192
  OptionCap,   \* 48: tokens of one option
  Reserve,     \* 16: tokens that options leave to the instructions
  MinOption,   \* 4: tokens of an option in a crowded head, its marker included
  MinHead      \* 8: tokens of the instructions in a crowded head

ASSUME PromptAssumption ==
  /\ {MaxLen, HeadMaxLen, MinOption} \subseteq Nat \ {0}
  /\ {OptionCap, Reserve, MinHead} \subseteq Nat

Mask == "[MASK]"
Cls == "[CLS]"
Sep == "[SEP]"
Pad == "[PAD]"
Tokens == STRING \cup {"blank", Mask, Cls, Sep, Pad}

\* s[:n], for n that is not negative.
Take(s, n) == SubSeq(s, 1, Min({n, Len(s)}))

\* A mask token in a text is replaced by a blank before the text is tokenized.
Verbatim(text) == text                                  \* mutant
Clean(text) == [i \in DOMAIN text |-> IF text[i] = Mask THEN "blank" ELSE text[i]]

\* The tokens of the options, each behind its marker.
OptionTokens(q) ==
  [i \in DOMAIN q.options |-> << Mask >> \o Take(Clean(q.options[i]), OptionCap)]

\* What the head has left for the instructions; options that leave too little
\* are cut, all to the same length.
HeadRoom(opts) == HeadMaxLen - Len(FlattenSeq(opts))
Share(n) == Max({MinOption, (HeadMaxLen - Reserve) \div Max({1, n})})
Shortened(opts) ==
  IF HeadRoom(opts) < Reserve
  THEN [i \in DOMAIN opts |-> Take(opts[i], Share(Len(opts)))]
  ELSE opts

\* build_prefix(): [CLS] instructions [SEP] option ... option [SEP], and where the
\* options' markers are.
BuildPrefix(q) ==
  LET opts == Shortened(OptionTokens(q))
      head == Take(<< q.type >> \o Clean(q.ins), Max({MinHead, HeadRoom(opts)}))
      before(i) == 2 + Len(head) + Len(FlattenSeq(SubSeq(opts, 1, i - 1)))
  IN  [ids |-> << Cls >> \o head \o << Sep >> \o FlattenSeq(opts) \o << Sep >>,
       markers |-> [i \in DOMAIN opts |-> before(i) + 1]]

\* What follows the prefix: as much of the state as there is room for, and [SEP];
\* all cut to the limit, with the markers that this leaves.
StateRoomForgetsSep(prefix) == Max({0, MaxLen - Len(prefix.ids) - 2})  \* mutant
StateRoom(prefix) == Max({0, MaxLen - Len(prefix.ids) - 1})
Within(markers) ==
  LET upTo[n \in 0 .. Len(markers)] ==
        IF n = 0 THEN << >>
        ELSE IF markers[n] <= MaxLen THEN Append(upTo[n - 1], markers[n]) ELSE upTo[n - 1]
  IN  upTo[Len(markers)]
Sequence(prefix, state) ==
  LET room == StateRoom(prefix)
  IN  [ids |-> Take(prefix.ids \o Take(Clean(state), room) \o << Sep >>, MaxLen),
       markers |-> Within(prefix.markers)]

\* build_sequence(), as Agent.prepare() calls it.
BuildSequence(q, state) == Sequence(BuildPrefix(q), state)

\* The options that have lost their marker make the question TOKEN_BUDGET_EXCEEDED.
Fits(prompt, q) == Len(prompt.markers) = Len(q.options)

----------------------------------------------------------------------------
\* collate_items(): the prompts of a batch, padded to one length and to one number
\* of markers, at least two.
Padded(s, n, with) == [i \in 1 .. n |-> IF i <= Len(s) THEN s[i] ELSE with]
Widest(items) == Max({Len(items[r].ids) : r \in DOMAIN items})
Collate(items, length) ==
  LET count == Max({2} \cup {Len(items[r].markers) : r \in DOMAIN items})
  IN  [r \in DOMAIN items |->
         [ids |-> Padded(items[r].ids, length, Pad),
          attention |-> [i \in 1 .. length |-> i <= Len(items[r].ids)],
          markerPos |-> Padded(items[r].markers, count, 1),
          markerMask |-> [m \in 1 .. count |-> m <= Len(items[r].markers)],
          type |-> items[r].type]]

\* pad_to_multiple: the batch's length grows to a multiple, within max_len.
PaddedLength(items, multiple) ==
  LET length == Widest(items)
      padded == Min({((length + multiple - 1) \div multiple) * multiple, MaxLen})
  IN  IF multiple # 0 /\ padded > length THEN padded ELSE length

\* What the model makes of one row: the tokens it attends to and its own markers.
RowSeen(row) ==
  [ids |-> [i \in {p \in DOMAIN row.ids : row.attention[p]} |-> row.ids[i]],
   markers |-> [m \in {p \in DOMAIN row.markerPos : row.markerMask[p]} |-> row.markerPos[m]]]
=============================================================================
