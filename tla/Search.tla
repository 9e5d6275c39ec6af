------------------------------- MODULE Search -------------------------------
(***************************************************************************)
(* Searching, from what is typed to the line that is shown: the index of   *)
(* SearchIndex, and over it a query, typed chunk by chunk, parsed, run and *)
(* shown (src/query/mod.rs, src/snippet.rs).  A query is answered from one *)
(* snapshot, so the index stands still while one is typed; and as the      *)
(* parser does not depend on the index, queries are only typed over one    *)
(* index: of the documents of Showcase, in a full segment and another, of  *)
(* which those in Withdrawn have been deleted.                             *)
(*                                                                         *)
(* Before anything is indexed, texts are typed, piece by piece, to be cut  *)
(* into atoms as a document and as a query.                                *)
(***************************************************************************)
EXTENDS SearchIndex, QueryGrammar, Snippet

CONSTANTS Piece,      \* what is typed at a time in a text: sequences of characters
          Chunk,      \* what is typed at a time in a query: sequences of characters
          Showcase,   \* the documents over which queries are typed
          Withdrawn,  \* those of them that are deleted, by number
          PageQuery,  \* the queries that are answered page by page
          PageSize,   \* sizes of a page
          max_width,  \* of a snippet
          MaxText,    \* bound: characters of a typed text
          MaxChunks   \* bound: chunks of a query

ASSUME TextAssumption ==
    /\ Piece \cup Chunk \subseteq Seq(Char)
    /\ Showcase \in Seq(Text) /\ Withdrawn \subseteq DOMAIN Showcase
    /\ PageQuery \subseteq Query /\ PageSize \subseteq Nat
    /\ {max_width, MaxText, MaxChunks} \subseteq Nat

VARIABLES draft,  \* the text typed so far
          typed   \* the query typed so far, a sequence of chunks

vars == <<acc, segs, text_of, doc_at, removed, draft, typed>>

Init == EmptyIndex /\ draft = <<>> /\ typed = <<>>

ChangeIndex == draft = <<>> /\ typed = <<>> /\ IndexNext /\ UNCHANGED <<draft, typed>>

TypeText(piece) == /\ EmptyIndex
                   /\ Len(draft \o piece) <= MaxText
                   /\ draft' = draft \o piece
                   /\ UNCHANGED <<acc, segs, text_of, doc_at, removed, typed>>

OverShowcase == /\ Committed /\ text_of = Showcase /\ removed = Withdrawn
                /\ id_bound = Len(Showcase)
                /\ Len(segs) = 2 /\ num_docs(segs[1]) >= docs_per_segment

TypeQuery(chunk) == /\ OverShowcase
                    /\ Len(typed) < MaxChunks
                    /\ typed' = Append(typed, chunk)
                    /\ UNCHANGED <<acc, segs, text_of, doc_at, removed, draft>>

Next == \/ ChangeIndex
        \/ \E piece \in Piece : TypeText(piece)
        \/ \E chunk \in Chunk : TypeQuery(chunk)

Spec == Init /\ [][Next]_vars

-----------------------------------------------------------------------------
(* The invariants of the index.  It does not change with what is typed, so  *)
(* it is looked at when nothing is.                                         *)

(* A segment reads back as what it was written from (FilesReadBack of       *)
(* SearchIndex; idx.rs, memory.rs).                                         *)
SegmentsReadBack == typed = <<>> => FilesReadBack

(* A query over the segments finds exactly what it should, and counts it    *)
(* (HitsAreExact of SearchIndex; exec.rs, evaluate).                        *)
EvaluateIsExact == typed = <<>> => HitsAreExact

-----------------------------------------------------------------------------
(* A daemon's answer: the hits of several roots, of each as many as the     *)
(* page may need, under one ranking.                                        *)

\* The hits of the k-th root, by path.
Located(targets, k, hits) ==
    [n \in DOMAIN hits |->
        [root |-> k, path |-> DocWithId(targets[k], hits[n].doc).path, score |-> hits[n].score]]

\* The hits from offset on, of the best fetch hits of each root.
Page(targets, node, fetch, limit, offset) ==
    LET Cut(all_hits) == SubSeq(all_hits, offset + 1, Min({offset + limit, Len(all_hits)}))
    IN  Cut(ByScore(FlattenSeq([k \in DOMAIN targets |->
                        Located(targets, k, search(targets[k], node, fetch).hits)])))

\* Mutant: each root is asked for a page and no more.
handle_query_PageEach(targets, node, limit, offset) ==
    Page(targets, node, limit, limit, offset)

handle_query(targets, node, limit, offset) ==
    Page(targets, node, limit + offset, limit, offset)

\* A second root: the documents of Showcase, none deleted.
Elsewhere ==
    <<flush_segment(absorb(NewAcc, 0, [d \in DOMAIN Showcase |-> PathOf(d)], Showcase), 0)>>

\* A match <<k, d>> is the document d of the k-th root.
TextOf(m) == IF m[1] = 1 THEN text_of[m[2]] ELSE Showcase[m[2]]
IdIn(m) == IF m[1] = 1 THEN IdOf(m[2]) ELSE m[2]

\* The matches there are, with their scores.
ScoreOfMatches(node) ==
    Table([m \in {n \in ({1} \X Searchable) \cup ({2} \X DOMAIN Showcase) :
                      Matches(node, Written[TextOf(n)])} |->
              Occurrences(node, Written[TextOf(m)])])

\* How many matches come before each.
RankOfMatches(score) ==
    LET Before(m, n) == \/ score[m] > score[n]
                        \/ score[m] = score[n] /\ m[1] < n[1]
                        \/ score[m] = score[n] /\ m[1] = n[1] /\ IdIn(m) < IdIn(n)
    IN  Table([m \in DOMAIN score |-> Cardinality({n \in DOMAIN score : Before(n, m)})])

\* page has the matches of the ranks from offset on.
IsPage(page, score, rank, limit, offset) ==
    LET due == {m \in DOMAIN rank : rank[m] \in offset .. offset + limit - 1}
    IN  /\ Len(page) = Cardinality(due)
        /\ \A m \in due :
              page[rank[m] - offset + 1] = [root |-> m[1], path |-> PathOf(m[2]), score |-> score[m]]

PagesAre(node, score, rank) ==
    \A limit \in PageSize, offset \in 0 .. Cardinality(DOMAIN score) :
        IsPage(handle_query(<<segs, Elsewhere>>, node, limit, offset), score, rank, limit, offset)

(* Page by page a query lists every match of every root once, the best      *)
(* first, of equals those of the first root and with the lowest ids,        *)
(* whatever the size of a page: no page depends on how much of a root was   *)
(* fetched for it (server.rs, handle_query; query/mod.rs, search).          *)
PagesTile ==
    typed = <<>> /\ Committed =>
        \A input \in PageQuery :
            LET score == ScoreOfMatches(NodeOf[input])
            IN  PagesAre(NodeOf[input], score, RankOfMatches(score))

-----------------------------------------------------------------------------
(* Typing what is in a text.                                                *)

Quoted(s) == <<"\"">> \o s \o <<"\"">>

TermsOf(node) == IF node.kind = "Term" THEN <<node.t>> ELSE node.ts

\* What is typed is a query for terms that are written for the text, from its
\* n-th atom on.
FindsAt(input, n) ==
    LET parsed == parse(input)
    IN  parsed.ok /\ n \in Found(TermsOf(parsed.node), TermsWritten(draft))

\* An operator is no word unless it is quoted.
Typed(word) == IF WordTok(word).kind = "Word" THEN word ELSE Quoted(word)

\* What can be asked for as it stands: a quote in it would end the phrase, and
\* what begins with a combining mark is another atom, or none, without its base.
Askable(s) == s[1] # "mark" /\ ~Contains(s, "\"")

IsWritten(s) == Len(s) <= MAX_TERM_BYTES

(* Whatever part of a text is typed between quotes, from the start of one   *)
(* atom to the end of another, is found where it is, and so is every atom   *)
(* and identifier part of an atom that is typed alone, quoted if it is AND  *)
(* or OR: the query side, which sees no context and splits no identifiers,  *)
(* agrees with the index side on atoms and positions (tokenizer.rs, "the    *)
(* asymmetry").  Not found are what has a quote in it or begins with a      *)
(* combining mark, and atoms that are too long to be written (idx.rs).      *)
SourceFindsItself ==
    LET spans == Spans(draft)
    IN  \A n \in DOMAIN spans :
            /\ \A last \in n .. Len(spans) :
                  LET source == SubSeq(draft, spans[n][1], spans[last][2])
                  IN  (Askable(source) /\ \A k \in n .. last : IsWritten(Slice(draft, spans[k])))
                         => FindsAt(Quoted(source), n)
            /\ LET atom == Slice(draft, spans[n])
               IN  \A word \in {atom} \cup ToSet(identifier_parts(atom)) :
                      (Askable(word) /\ IsWritten(word)) => FindsAt(Typed(word), n)

-----------------------------------------------------------------------------
(* Typing a query.                                                          *)

query == FlattenSeq(typed)

\* The documents of Showcase that are to be found, by number.
Shown == DOMAIN Showcase \ removed

AtomsOf == [d \in DOMAIN Showcase |-> Written[Showcase[d]]]

HitsMean(toks, parsed) ==
    /\ parsed.ok <=> toks # Unterminated /\ WellFormed(toks) /\ ~LeadingAnd(toks)
    /\ parsed.ok => {doc_at[h.doc] : h \in ToSet(evaluate(segs, parsed.node))} =
                       Sense(toks, AtomsOf) \cap Shown

(* A query is accepted exactly if the grammar allows it, and then its hits  *)
(* are the documents its text speaks of: AND binds closer than OR, a minus  *)
(* negates the operand it touches, operands without words say nothing, and  *)
(* every clause names something positive (parser.rs, query/mod.rs).  One    *)
(* case of the grammar is refused: an AND that follows nothing but operands *)
(* without words, as in `"" AND a` (LeadingAnd).                            *)
QueryMeansWhatItSays == typed # <<>> => HitsMean(lex(query, 1, <<>>), parse(query))

\* What is left of an atom by a window that begins a quarter before it.
FitsWindow(span) == span[2] - span[1] < max_width - max_width \div 4

\* How many places of the line the window has passed by when it begins at first,
\* for the text that shows it: an ellipsis stands for them.
Ahead(shown, first) == first - 1 - (IF shown.text[1] = "..." THEN 1 ELSE 0)

\* shown is the line from first on, for some length, and of the atoms with, which
\* are wanted, all are highlighted that are shown to their end: the first of
\* them is, if it fits.
ShowsFrom(shown, line, first, with) ==
    LET body == SelectSeq(shown.text, LAMBDA c : c # "...")
        last == first + Len(body) - 1
        whole == {span \in ToSet(with) : first <= span[1] /\ span[2] <= last}
        by == Ahead(shown, first)
    IN  /\ last <= Len(line) /\ SubSeq(line, first, last) = body
        /\ {<<range[1] + by, range[2] + by>> : range \in ToSet(shown.highlights)} = whole
        /\ FitsWindow(with[1]) => with[1] \in whole

\* No line has more of the wanted terms, and none before it as many.
IsBest(all, n, wanted) ==
    \A k \in DOMAIN all : LET more == Cardinality(Seen(all[k], wanted)) - Cardinality(Seen(all[n], wanted))
                          IN  more < 0 \/ (more = 0 /\ n <= k)

ShowsWanted(shown, all, wanted) ==
    \E n \in DOMAIN all :
        /\ IsBest(all, n, wanted)
        /\ \E first \in DOMAIN all[n] : ShowsFrom(shown, all[n], first, SpansWith(all[n], wanted))

MatchesShown(node, wanted) ==
    \A d \in DOMAIN Showcase : Matches(node, AtomsOf[d]) =>
        ShowsWanted(snippet_for(Showcase[d], wanted, max_width), lines(Showcase[d]), wanted)

(* Whatever is found can be shown: a document that matches has a line to    *)
(* show, the first of those with the most terms that were asked for.  What  *)
(* is shown of it is a piece of that line, and highlighted are exactly the  *)
(* wanted atoms that are in this piece to their end, at the places they     *)
(* have moved to; the first one of the line is among them, unless it is     *)
(* longer than what the window keeps for it (snippet.rs; query/mod.rs,      *)
(* highlight_terms).                                                        *)
MatchesCanBeShown ==
    LET parsed == parse(query)
    IN  parsed.ok => MatchesShown(parsed.node, highlight_terms(parsed.node))
=============================================================================
