------------------------------ MODULE MC_Search ------------------------------
(* Search over eleven pieces of text, nine chunks of a query and three      *)
(* documents.  "aD" has the parts "a" and "D"; "a_a_a" is too long to be    *)
(* written, its parts are not.                                              *)
EXTENDS Search
Split(string) == [i \in 1 .. Len(string) |-> SubSeq(string, i, i)]
Pieces == {<<c>> : c \in {"a", "A", "1", "_", "mark", ".", " ", "newline", "\""}}
              \cup {Split("OR"), Split("AND")}
Chunks == {<<"a", " ">>, <<"d", ".", "a">>, <<"-">>, <<"(">>, <<")">>, <<"\"">>, <<".", " ">>,
           <<"A", "N", "D", " ">>, <<"O", "R", " ">>}
FirstDoc == Split("d a aD") \o <<"newline">> \o Split("a")
Second == Split("d daa d")
Third == Split(". a_a_a a")
Texts == {FirstDoc, Second, Third}
Documents == <<FirstDoc, Second, Third>>
Queries == {Split("a"), Split("\"a d\""), Split("\"d a\""), Split("a d -\"a d\" -ad"),
            Split("ad OR \"d a\" OR d -a -daa"), Split("d.daa.d")}
Paged == {Split("a")}
=============================================================================
