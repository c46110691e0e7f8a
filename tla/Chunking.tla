------------------------------ MODULE Chunking ------------------------------
(***************************************************************************)
(* How the text of a version is cut into the fragments that are embedded    *)
(* (rag/indexing.py, structural_chunk_text) and how the plain cut of        *)
(* corpus/chunker.py does it.                                               *)
(*                                                                         *)
(* A text is a number of tokens and the strongest structural mark of each   *)
(* end (the place after so many tokens).  Of an end that has several marks  *)
(* only the strongest can decide, since a weaker one is looked for when no  *)
(* end of the window has it.  Headings are taken as not indented.           *)
(***************************************************************************)
EXTENDS Integers, Sequences

CONSTANTS
    MaxTokens, Overlap,         \* MAX_CHUNK_TOKENS = 512, OVERLAP_TOKENS = 50
    Lengths                     \* numbers of tokens a text may have

Marks == {"HEADING", "PARAGRAPH", "SENTENCE", "NONE"}

ASSUME ChunkingConstants ==
    /\ MaxTokens \in Nat /\ Overlap \in Nat /\ Overlap < MaxTokens
    /\ Lengths \subseteq Nat

VARIABLES
    length, mark,
    opens,          \* the text begins with a heading
    start,          \* first token of the next fragment
    fragments,      \* [from, to, label]: tokens from .. to - 1
    cut             \* the loop is over

text == <<length, mark, opens>>
chunkingVars == <<length, mark, opens, start, fragments, cut>>

NoHeading == -1

Smaller(a, b) == IF a < b THEN a ELSE b
Larger(a, b) == IF a < b THEN b ELSE a

-----------------------------------------------------------------------------
(* _preferred_end: the last end of the window with the strongest mark.      *)
NoMinimum(s, hard) == Smaller(hard, s + 1)              \* faulty: any end will do
Minimum(s, hard) == Smaller(hard, s + Overlap + 1)

Ends(s, hard, m) == {e \in Minimum(s, hard)..hard : mark[e] = m}

LastEnd(s, hard, m) ==
    CHOOSE e \in Ends(s, hard, m) : \A f \in Ends(s, hard, m) : f <= e

PreferredEnd(s, hard) ==
    IF hard >= length THEN hard
    ELSE IF Ends(s, hard, "HEADING") # {} THEN LastEnd(s, hard, "HEADING")
    ELSE IF Ends(s, hard, "PARAGRAPH") # {} THEN LastEnd(s, hard, "PARAGRAPH")
    ELSE IF Ends(s, hard, "SENTENCE") # {} THEN LastEnd(s, hard, "SENTENCE")
    ELSE hard

HardEnd(s) == Smaller(s + MaxTokens, length)

(* The guard "if end <= start" of the loop can never hold.                  *)
End(s) == PreferredEnd(s, HardEnd(s))

(* _structural_metadata: the first heading of the fragment, or the last one *)
(* before it.                                                               *)
Headings ==
    {h \in 0..(length - 1) : IF h = 0 THEN opens ELSE mark[h] = "HEADING"}

Label(from, to) ==
    LET inside == {h \in Headings : from <= h /\ h < to}
        before == {h \in Headings : h < from}
    IN  IF inside # {} THEN CHOOSE h \in inside : \A g \in inside : h <= g
        ELSE IF before # {} THEN CHOOSE h \in before : \A g \in before : g <= h
        ELSE NoHeading

(* chunk_text: a window of constant stride.                                 *)
Stride == MaxTokens - Overlap

PlainCut ==
    LET last == IF length <= MaxTokens THEN 0
                ELSE (length - MaxTokens + Stride - 1) \div Stride
    IN  [i \in 1..(last + 1) |->
            [from |-> (i - 1) * Stride,
             to |-> Smaller((i - 1) * Stride + MaxTokens, length)]]

-----------------------------------------------------------------------------
ChunkingInit ==
    /\ length \in Lengths /\ mark \in [1..(length - 1) -> Marks] /\ opens \in BOOLEAN
    /\ start = 0 /\ fragments = <<>> /\ cut = (length = 0)

(* One turn of the loop.                                                    *)
CutFragment ==
    /\ ~cut
    /\ LET end == End(start)
       IN  /\ fragments' = Append(fragments, [from |-> start, to |-> end,
                                              label |-> Label(start, end)])
           /\ cut' = (end >= length)
           /\ start' = IF end >= length THEN start
                       ELSE Larger(start + 1, end - Overlap)
    /\ UNCHANGED text

ChunkingSpec == ChunkingInit /\ [][CutFragment]_chunkingVars

-----------------------------------------------------------------------------
ChunkingTypeOK ==
    /\ length \in Lengths /\ mark \in [1..(length - 1) -> Marks] /\ opens \in BOOLEAN
    /\ start \in Nat /\ cut \in BOOLEAN
    /\ fragments \in Seq([from : Nat, to : Nat, label : Int])

(* No token is left out of the index: the fragments begin with the first    *)
(* token, none begins after the end of the one before, and the last ends    *)
(* with the text.                                                           *)
EveryTokenIsIndexed ==
    /\ fragments # <<>> => fragments[1].from = 0
    /\ \A i \in 1..(Len(fragments) - 1) : fragments[i + 1].from <= fragments[i].to
    /\ cut /\ length > 0 =>
          fragments # <<>> /\ fragments[Len(fragments)].to = length

(* Every fragment fits in the window and tells more than the one before:    *)
(* a mark that is found right after the overlap must not make the window    *)
(* stand still or give a fragment that lies inside its predecessor.         *)
FragmentsAdvance ==
    /\ \A i \in 1..Len(fragments) :
          /\ fragments[i].from < fragments[i].to
          /\ fragments[i].to <= fragments[i].from + MaxTokens
    /\ \A i \in 1..(Len(fragments) - 1) :
          /\ fragments[i].to < fragments[i + 1].to
          /\ fragments[i].from < fragments[i + 1].from
          /\ fragments[i + 1].from >= fragments[i].to - Overlap

(* The labels follow the text: no fragment is filed under a heading that    *)
(* comes before the one its predecessor is filed under.                     *)
LabelsFollowText ==
    \A i \in 1..(Len(fragments) - 1) : fragments[i].label <= fragments[i + 1].label

(* A text without marks is cut as the plain algorithm cuts it.              *)
PlainTextIsCutPlainly ==
    cut /\ length > 0 /\ (\A e \in 1..(length - 1) : mark[e] = "NONE") =>
        [i \in 1..Len(fragments) |-> [from |-> fragments[i].from, to |-> fragments[i].to]]
            = PlainCut

(* What the index needs of the fragments of a text.                         *)
FragmentsCoverText ==
    /\ EveryTokenIsIndexed /\ FragmentsAdvance
    /\ LabelsFollowText /\ PlainTextIsCutPlainly

=============================================================================
