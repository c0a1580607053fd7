------------------------------ MODULE Chunker ------------------------------
(***************************************************************************)
(* chunk_markdown (agent/rag/chunker.py): a document, as _split_sections   *)
(* returns it, cut into chunks that carry the headings they stand under.   *)
(*                                                                         *)
(* A section is a heading's level and title (level 0: the text before the  *)
(* first heading) and the lengths of its paragraphs; a paragraph in a text *)
(* is <<section, place, length>>.  Paragraphs are two characters apart.    *)
(***************************************************************************)
EXTENDS Integers, SequencesExt, Picking

CONSTANTS
    TargetChars,   \* target_chars
    MinChars,      \* min_chars
    NoTitle        \* an entry of the stack that is empty

ASSUME ChunkerAssumption == TargetChars \in Nat /\ MinChars \in Nat

Levels == 1 .. 6

(* What _split_sections returns: text before the first heading, if there is
   any, comes first, and headings are not empty.  (One of blanks only, which
   HEADING_RE finds at the very end of a text, has nothing under it and cuts
   nothing that the last flush would not; documents are taken without it.)  *)
IsDocument(doc) ==
    /\ doc \in Seq(ToSet(doc))
    /\ \A i \in DOMAIN doc :
          /\ doc[i].level \in Levels \cup {0}
          /\ doc[i].body \in Seq(Nat)
          /\ doc[i].level = 0 => i = 1
          /\ doc[i].level # 0 => doc[i].title # NoTitle

Body(doc, i) == [k \in DOMAIN doc[i].body |-> <<i, k, doc[i].body[k]>>]

(* len of the joined text. *)
Length(text) == FoldLeft(LAMBDA n, p : n + p[3] + 2, -2, text)

(* _pack_paragraphs. *)
PackOne(packed, p) ==
    IF packed.cur + p[3] + 2 > TargetChars /\ packed.buf # <<>>
        THEN [out |-> Append(packed.out, packed.buf), buf |-> <<p>>,
              cur |-> p[3] + 2]
        ELSE [packed EXCEPT !.buf = Append(@, p), !.cur = @ + p[3] + 2]

PackParagraphs(text) ==
    LET nothing == [out |-> <<>>, buf |-> <<>>, cur |-> 0]
        packed == FoldLeft(PackOne, nothing, text)
    IN  Append(packed.out, packed.buf)

(* flush(): one chunk, or as many as the text needs if it is longer than 1.4
   times the target.                                                        *)
Flush(st) ==
    LET texts == IF st.pending = <<>> THEN <<>>
                 ELSE IF 5 * Length(st.pending) <= 7 * TargetChars
                      THEN <<st.pending>> ELSE PackParagraphs(st.pending)
        Chunk(text) == [text |-> text, title |-> st.title]
        entitled == [i \in DOMAIN texts |-> Chunk(texts[i])]
    IN  [st EXCEPT !.chunks = @ \o entitled, !.pending = <<>>]

(* Slip: the headings below the new one stay. *)
UnderWithoutReset(stack, level, title) ==
    IF level = 0 THEN stack ELSE [stack EXCEPT ![level] = title]

(* The stack of headings, from a new one on. *)
Under(stack, level, title) ==
    [l \in Levels |-> CASE level = 0 \/ l < level -> stack[l]
                        [] l = level -> title
                        [] OTHER -> NoTitle]

HeadingPath(stack, level) ==
    Without(SubSeq(stack, 1, level), {NoTitle})

(* The loop's body, for section i. *)
AddSection(st, doc, i) ==
    LET stack == Under(st.stack, doc[i].level, doc[i].title)
        path == HeadingPath(stack, doc[i].level)
        flushed == IF path # st.title THEN Flush(st) ELSE st
        added == [flushed EXCEPT !.stack = stack, !.title = path,
                                 !.pending = @ \o Body(doc, i)]
    IN  IF Length(added.pending) + 2 >= TargetChars THEN Flush(added) ELSE added

ChunkMarkdown(doc) ==
    LET start == [chunks |-> <<>>, pending |-> <<>>, title |-> <<>>,
                  stack |-> [l \in Levels |-> NoTitle]]
        Add(st, i) == AddSection(st, doc, i)
        end == Flush(FoldLeftDomain(Add, start, doc))
    IN  Picked(end.chunks, {i \in DOMAIN end.chunks :
                               Length(end.chunks[i].text) >= MinChars})
-----------------------------------------------------------------------------
(* What to expect of it. *)

(* The headings that section i stands under: those of smaller levels, as far
   as no heading between of the same level or a smaller one ended them.     *)
Encloses(doc, i) ==
    {j \in 1 .. i : /\ doc[j].level > 0
                    /\ \A k \in j + 1 .. i : doc[k].level > doc[j].level}

Lineage(doc, i) == Picked([j \in 1 .. i |-> doc[j].title], Encloses(doc, i))

Before(p, q) == p[1] < q[1] \/ (p[1] = q[1] /\ p[2] < q[2])

InOrder(texts) ==
    \A m, n \in DOMAIN texts :
        \A i \in DOMAIN texts[m], j \in DOMAIN texts[n] :
            m < n \/ (m = n /\ i < j) => Before(texts[m][i], texts[n][j])

Held(texts) == UNION {ToSet(texts[m]) : m \in DOMAIN texts}

Paragraphs(doc) == UNION {ToSet(Body(doc, i)) : i \in DOMAIN doc}

(* In the document's order and nothing twice; none but its paragraphs, and
   each that is worth a chunk; under the headings they stand under; and no
   chunk longer than asked for if it could have been cut.                   *)
FaithfulTo(doc, chunks) ==
    LET texts == [m \in DOMAIN chunks |-> chunks[m].text]
    IN  /\ InOrder(texts)
        /\ Held(texts) \subseteq Paragraphs(doc)
        /\ \A p \in Paragraphs(doc) : p[3] >= MinChars => p \in Held(texts)
        /\ \A m \in DOMAIN chunks : \A p \in ToSet(texts[m]) :
              chunks[m].title = Lineage(doc, p[1])
        /\ \A m \in DOMAIN texts :
              5 * Length(texts[m]) <= 7 * TargetChars \/ Len(texts[m]) = 1
=============================================================================
