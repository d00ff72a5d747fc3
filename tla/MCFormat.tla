------------------------------ MODULE MCFormat ------------------------------
(***************************************************************************)
(* Programs for Format, and the edits that are made to them: a lexeme is   *)
(* missing, a line is indented wrongly, or two comments are added.  Blanks *)
(* between lexemes that decide nothing are left out.                       *)
(***************************************************************************)
EXTENDS Format

MCPrograms == <<
    <<Line(0, <<"x", "=", "f", "(", "1", ",", "2", ")">>), Line(0, <<"y", "=", "x", "+", "1">>)>>,
    <<Line(0, <<"def", "f", "(", "a", ":", "int", ",", "b", ":", "int", ")", ":", "int", "uses", "{", "net", "}">>),
      Line(4, <<"var", "c", "=", "a", "*", "b">>), Line(4, <<"c", "=", "c", "-", "1">>),
      Line(4, <<"return", "c">>), Line(0, <<>>), Line(0, <<"f", "(", "1", ",", "2", ")">>)>>,
    <<Line(0, <<"struct", "P", "[", "T", "]">>), Line(4, <<"x", ":", "int">>),
      Line(4, <<"y", ":", "list", "[", "T", "]">>),
      Line(4, <<"def", "m", "(", "var", "self", ",", "k", ":", "int", ")", ":", "void">>),
      Line(8, <<"self", ".", "x", "=", "k">>), Line(0, <<>>), Line(0, <<"enum", "E">>), Line(4, <<"A">>),
      Line(4, <<"B", "(", "v", ":", "int", ",", "str", ")">>)>>,
    <<Line(0, <<"y", "=", "if", "a", "==", "1">>), Line(4, <<"f", "(", "a", ")">>), Line(4, <<"2">>),
      Line(0, <<"else">>), Line(4, <<"g", "(", "b", ")">>)>>,
    <<Line(0, <<"y", "=", "if", "a">>), Line(4, <<"1">>), Line(0, <<"else", "if", "b">>), Line(4, <<"2">>),
      Line(0, <<"else">>), Line(4, <<"3">>)>>,
    <<Line(0, <<"y", "=", "match", "e">>), Line(4, <<"A", "=>", "1">>),
      Line(4, <<"B", "(", "_", ",", "v", ")", "=>">>), Line(8, <<"z", "=", "v">>), Line(8, <<"z">>),
      Line(4, <<"_", "=>", "3">>)>>,
    <<Line(0, <<"xs", "=", "[", "1", ",", "2", "]">>),
      Line(4, <<".", "map", "(", "(", "v", ")", "=>", "v", "+", "1", ")">>),
      Line(4, <<".", "fold", "(", "0", ",", "(", "a", ",", "b", ")", "=>">>), Line(8, <<"if", "a">>),
      Line(12, <<"1">>), Line(8, <<"else">>), Line(12, <<"2">>), Line(4, <<")">>)>>,
    <<Line(0, <<"ys", "=", "xs", ".", "map", "(", "(", "v", ")", "=>">>), Line(4, <<"match", "v">>),
      Line(8, <<"A", "=>", "1">>), Line(8, <<"_", "=>", "2">>), Line(0, <<")">>)>>,
    <<Line(0, <<"z", "=", "f", "(">>), Line(4, <<"1", ",">>), Line(4, <<"k", ":", "2">>), Line(0, <<")">>),
      Line(0, <<"w", "=", "{">>), Line(4, <<"a", ":", "1", ",">>), Line(4, <<"b", ":", "2">>),
      Line(0, <<"}">>)>>,
    <<Line(0, <<"x", "|>", "f", "|>", "g", "(", "_", ",", "1", ")", "?", "|>", "h">>),
      Line(0, <<"t", "=", "(", "1", ",", "(", "2", ",", ")", ")">>),
      Line(0, <<"p", "=", "par", "[", "f", "(", ")", ",", "g", "(", ")", "]">>)>>,
    <<Line(0, <<"module">>), Line(0, <<"x", "=", "-", "1">>),
      Line(0, <<"b", ":", "tuple", "[", "int", ",", "int", "]", "=", "(", "not", "a", "or", "b", ",", "2", ")">>)>>,
    <<Line(0, <<"x", "=", "(", "if", "a">>), Line(4, <<"1">>), Line(0, <<"else">>), Line(4, <<"2">>),
      Line(0, <<")", "+", "1">>)>>,
    <<Line(0, <<"f", "(", "(", "x", ")", "=>", "x", ",", "[">>), Line(4, <<"1", ",">>), Line(4, <<"2">>),
      Line(0, <<"]", ",", "3", ")">>), Line(0, <<"t", ".", "0", ".", "x", "[", "1", "]", "=", "a">>)>>,
    <<Line(0, <<"x", "=", "-", "-", "-", "-", "-", "-", "-", "1">>)>>,
    <<Line(0, <<"#!", " ", "ybm">>), Line(0, <<>>), Line(0, <<"##", " ", "doc">>),
      Line(0, <<"##", " ", FenceMark, " ", "tag">>), Line(0, <<"##", " ", " ", " ", "code">>),
      Line(0, <<"##", " ", FenceMark>>), Line(0, <<"##", " ", "more">>),
      Line(0, <<"def", "f", "[", "T", "]", "(", "g", ":", "(", "T", ",", "int", ")", "->", "void",
                "uses", "{", "io", "}", ",", "xs", ":", "list", "[", "T", "]", ")", ":", "T">>),
      Line(4, <<"return">>), Line(0, <<>>), Line(0, <<"a", "=", "1">>)>>,
    <<Line(0, <<"def", "f", "(">>), Line(4, <<"a", ":", "int", ",">>), Line(4, <<"b", ":", "str">>),
      Line(0, <<")", ":", "void">>), Line(4, <<"a", ".", "b", "=", "1">>),
      Line(4, <<"a", "[", "0", "]", "=", "2">>), Line(4, <<"_", "=", "g", "(", ")">>), Line(0, <<>>),
      Line(4, <<"return">>)>>,
    <<Line(0, <<"m", "=", "match", "(", "a", ",", "b", ")">>), Line(4, <<"(", "A", ",", "_", ")", "=>">>),
      Line(8, <<"match", "a">>), Line(12, <<"-", "1", "=>", "true">>), Line(12, <<"_", "=>", "false">>),
      Line(4, <<"(", "_", ",", "b", ")", "=>", "if", "b">>), Line(8, <<"1">>), Line(4, <<"else">>),
      Line(8, <<"2">>)>>,
    <<Line(0, <<"x">>), Line(4, <<"|>", "f">>),
      Line(4, <<"|>", "g", "(", "_", ",", "[", "1", ",", "2", "]", ")">>), Line(4, <<"|>", "h", "?">>),
      Line(0, <<"y", "=", "a">>), Line(4, <<".", "b">>), Line(4, <<".", "c", "[", "T", "]", "(", "1", ",">>),
      Line(4, <<"2", ")">>)>>,
    <<Line(0, <<"v", "=", "f", "(", "[">>), Line(4, <<"g", "(", "1", ",", "b", ")", ",">>),
      Line(4, <<"{", "1", ",", "2", "}", ",">>), Line(4, <<"{", "}", ",">>),
      Line(0, <<"]", ",", "k", ":", "[">>), Line(0, <<"]", ")">>),
      Line(0, <<"w", "=", "g", "(", "(", "a", ",", "b", ")", "=>", "a", ".", "b", ")">>)>>,
    <<Line(0, <<"xs", "=", "par", "[">>), Line(4, <<"f", "(", ")", ",">>),
      Line(4, <<"ys", ".", "map", "(", "(", "v", ")", "=>", "v", "?", ")", ",">>), Line(0, <<"]">>)>>,
    <<Line(0, <<"def", "f", "(", ")", ":", "int">>), Line(4, <<"if", "a">>), Line(8, <<"if", "b">>),
      Line(12, <<"1">>), Line(8, <<"else">>), Line(12, <<"2">>), Line(4, <<"else">>),
      Line(8, <<"_", "=", "1">>), Line(8, <<"match", "e">>), Line(12, <<"A", "=>", "2">>), Line(4, <<"3">>)>>
>>

MCIdents == {"A", "B", "E", "P", "T", "a", "b", "c", "e", "f", "fold", "g", "h",
             "int", "io", "k", "list", "m", "map", "net",
             "p", "str", "t", "tuple", "v", "w", "x", "xs", "y", "ys", "z"}
MCInts == {"0", "1", "2", "3"}

\* Where a program may be edited: behind its shebang and its fence, because a
\* fence that is never closed is dropped.
FirstEdited(t) == IF HasShebang(t) THEN 8 ELSE 1
Places == UNION {{<<t, i>> : i \in FirstEdited(t)..Len(t)} : t \in Range(MCPrograms)}

\* a lexeme of line i is missing
Missing(t, i) == {[t EXCEPT ![i].lex = RemoveAt(@, j)] : j \in DOMAIN t[i].lex}

\* line i is indented by any level
Indented(t, i) == {[t EXCEPT ![i].ind = 4 * n] : n \in 0..3}

\* a comment above line i, and one behind any line
Note(mark) == <<mark, " ", "note">>
Above(t, i, mark) == InsertAt(t, i, Line(t[i].ind, Note(mark)))
Behind(t, i) == [t EXCEPT ![i].lex = @ \o <<" ">> \o Note("#")]
Noted(t, i) ==
    {Behind(Above(t, i, mark), j) : mark \in {"#", "##"}, j \in FirstEdited(t)..(Len(t) + 1)}

\* A comment behind the last line of an if in parentheses would swallow the
\* parenthesis: these programs get none.
Grouped(t) == \E i \in DOMAIN t : \E j \in DOMAIN t[i].lex \ {1} : t[i].lex[j] = "if" /\ t[i].lex[j - 1] = "("

MCSources ==
    Range(MCPrograms) \cup UNION {Missing(p[1], p[2]) \cup Indented(p[1], p[2]) : p \in Places}
    \cup UNION {Noted(p[1], p[2]) : p \in {q \in Places : ~Grouped(q[1])}}

=============================================================================
