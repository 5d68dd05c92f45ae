---------------------------- MODULE Detokenizer ----------------------------
(***************************************************************************)
(* IncrementalDetokenizer of src/engine/detokenizer.py: text leaves while  *)
(* tokens arrive, and a character is never cut in two.                     *)
(*                                                                         *)
(* A token is a sequence of bytes, of which six kinds are told apart: "a"  *)
(* a character of one byte, "x" and "w" the first bytes of characters of   *)
(* two and of three, "c" a continuation, "f" a byte UTF-8 has not, and "u" *)
(* a U+FFFD the model wrote itself (as one kind of byte).  A character is  *)
(* "a", "x", "w", or "?" for U+FFFD.                                       *)
(***************************************************************************)
EXTENDS Integers, SequencesExt

CONSTANTS
    Tokens,     \* the vocabulary
    MaxTokens   \* bounds the tokens of a stream, for TLC

ASSUME DetokenizerAssumption ==
    /\ Tokens \subseteq Seq({"a", "x", "w", "c", "f", "u"}) \ {<<>>}
    /\ MaxTokens \in Nat

VARIABLES
    ids, prefix, read,  \* the detokenizer's fields
    sent,               \* the text it has returned
    flushed             \* the stream has ended

detokVars == <<ids, prefix, read, sent, flushed>>

-----------------------------------------------------------------------------
(* tokenizer.decode: UTF-8 with errors="replace", one U+FFFD for each       *)
(* longest piece that is the beginning of a character, and for each other   *)
(* byte that does not belong.                                               *)
Longer == [x |-> 1, w |-> 2]        \* continuations a first byte calls for
Broken(d) == IF d.wants > 0 THEN Append(d.text, "?") ELSE d.text
DecodeByte(d, byte) ==
    IF byte = "c" /\ d.wants > 1 THEN [d EXCEPT !.wants = @ - 1]
    ELSE IF byte = "c" /\ d.wants = 1
         THEN [d EXCEPT !.text = Append(@, d.first), !.wants = 0]
    ELSE IF byte \in DOMAIN Longer
         THEN [text |-> Broken(d), first |-> byte, wants |-> Longer[byte]]
    ELSE [d EXCEPT !.text = Append(Broken(d), IF byte = "a" THEN "a" ELSE "?"), !.wants = 0]

Decode(tokens) ==
    Broken(FoldLeft(DecodeByte, [text |-> <<>>, first |-> "none", wants |-> 0], FlattenSeq(tokens)))

-----------------------------------------------------------------------------
(* ids[from:to] and text[from:] count from 0.                               *)
Between(from, to) == Decode(SubSeq(ids', from + 1, to))
After(text, n) == SubSeq(text, n + 1, Len(text))

DetokInit == ids = <<>> /\ prefix = 0 /\ read = 0 /\ sent = <<>> /\ flushed = FALSE

CompleteIfLonger(new, old) == Len(new) > Len(old)    \* mutant: half a character counts
CompleteIfMore(new, old) ==    \* mutant: waits for a second character
    Len(new) > Len(old) + 1 /\ Last(new) # "?"
Complete(new, old) == Len(new) > Len(old) /\ Last(new) # "?"

Push(token) ==
    /\ ~flushed /\ Len(ids) < MaxTokens
    /\ ids' = Append(ids, token)
    /\ LET prefix_text == Between(prefix, read)
           new_text == Between(prefix, Len(ids'))
       IN  IF Complete(new_text, prefix_text)
           THEN /\ prefix' = read /\ read' = Len(ids')
                /\ sent' = sent \o After(new_text, Len(prefix_text))
           ELSE UNCHANGED <<prefix, read, sent>>
    /\ UNCHANGED flushed

Flush ==
    /\ ~flushed
    /\ flushed' = TRUE
    /\ UNCHANGED ids
    /\ sent' = sent \o After(Between(prefix, Len(ids)), Len(Between(prefix, read)))
    /\ prefix' = Len(ids) /\ read' = Len(ids)

DetokNext == Flush \/ \E t \in Tokens : Push(t)

DetokSpec == DetokInit /\ [][DetokNext]_detokVars

-----------------------------------------------------------------------------
(* Properties.                                                              *)

(* "Streamed text is tested to equal the decoded token ids": what has left  *)
(* is the text of the tokens read so far, and in the end of all of them,    *)
(* wherever tokens cut characters and whatever bytes they are made of.      *)
StreamedTextIsTheText == sent = Decode(SubSeq(ids, 1, read)) /\ (flushed => read = Len(ids))

(* Text is held back only for a tail that is not a character yet: no        *)
(* complete character that ends the text is kept, and none that left was    *)
(* half of one.                                                             *)
NothingHeldButATail ==
    /\ ids # <<>> /\ Last(Decode(ids)) # "?" => read = Len(ids)
    /\ IsPrefix(sent, Decode(ids))
=============================================================================
