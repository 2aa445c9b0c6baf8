------------------------------ MODULE MCPeLoader ------------------------------
(* Small DLLs for PeLoader: pages of two cells, images of up to four pages.  *)
(* Layouts varies the section table; the other sets vary one directory each  *)
(* over an ordinary layout: headers, code, data, and a gap at the end.       *)
EXTENDS PeLoader

NoImports == [at |-> 0, size |-> 0, descs |-> <<>>]
NoTls     == [at |-> 0, start |-> NoVA, end |-> NoVA, index |-> NoVA,
              cbs |-> NoVA, funs |-> <<>>]
Exported  == [at |-> 4, table |-> 4, names |-> <<4>>, found |-> TRUE, fn |-> 2]

Code == [va |-> 2, vsize |-> 2, raw |-> 1, ptr |-> 1, exec |-> TRUE, read |-> TRUE]
Data == [va |-> 4, vsize |-> 1, raw |-> 2, ptr |-> 2, exec |-> FALSE, read |-> TRUE]

Dll == [len |-> 4, image |-> 8, hdr |-> 1, entry |-> 2, secs |-> <<Code, Data>>,
        imp |-> NoImports, tls |-> NoTls, exp |-> Exported]

SomeSections ==
  {[va |-> v, vsize |-> z[1], raw |-> z[2], ptr |-> 1, exec |-> x, read |-> x] :
     v \in {0, 2, 3, 4, 6}, z \in {<<0, 0>>, <<1, 2>>, <<3, 1>>, <<2, 4>>}, x \in BOOLEAN}

Layouts ==
  {[Dll EXCEPT !.image = i, !.hdr = h, !.secs = ss, !.entry = 2] :
     i \in {7, 8}, h \in {1, 3, 8},
     ss \in {<<>>} \cup {<<a>> : a \in SomeSections}
               \cup {<<a, b>> : a \in SomeSections, b \in SomeSections}}

Imported == {Ordinal, 1, 6}
Descriptors ==
  [name : {0, 4}, iat : {0, 2, 3, 4, 5}, ilt : {0, 2, 5},
   fns : {<<>>} \cup {<<a>> : a \in Imported}
           \cup {<<a, b>> : a \in Imported, b \in Imported}]
ImportFiles ==
  {[Dll EXCEPT !.imp = [at |-> a, size |-> z, descs |-> <<d>>]] :
     a \in {4, 6}, z \in {0, 1, 2}, d \in Descriptors}

TlsFiles ==
  {[Dll EXCEPT !.tls = [at |-> a, start |-> s[1], end |-> s[2], index |-> i,
                        cbs |-> c, funs |-> f]] :
     a \in {4, 6}, s \in {<<NoVA, NoVA>>, <<NoVA, NoVA + 2>>, <<-1, 1>>, <<4, 6>>, <<5, 7>>,
                       <<2, 6>>, <<5, 9>>},
     i \in {NoVA, -1, 2, 5, 6}, c \in {NoVA, -1, 4, 7, 9},
     f \in {<<>>, <<2>>, <<2, 3>>, <<4>>, <<-1>>, <<9>>}}

ExportFiles ==
  {[Dll EXCEPT !.entry = e, !.exp = [at |-> a, table |-> t, names |-> m,
                                     found |-> b, fn |-> f]] :
     e \in {2, 4, 6, 8}, a \in {0, 4, 7}, t \in {5, 6}, m \in {<<>>, <<4>>, <<4, 6>>},
     b \in BOOLEAN, f \in {2, 4, 7}}

MCFiles == Layouts \cup ImportFiles \cup TlsFiles \cup ExportFiles
==============================================================================
