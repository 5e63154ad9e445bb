---------------------------- MODULE MCGraphCache ----------------------------
(***************************************************************************)
(* Two workers, one of them with two threads, over a database that is read *)
(* before and after people are linked to entities.  In the second version  *)
(* bobby is bob, who has become a co-host of P by his second episode of    *)
(* six, dan has one appearance without a date, and X has no English name.  *)
(* The name ??? of the first version reads as nothing.                     *)
(***************************************************************************)
EXTENDS GraphCache

CONSTANTS w1, w2, t1, t2, t3

MCWorkerOf == [t \in {t1, t2, t3} |-> IF t = t3 THEN w2 ELSE w1]

\* A graph of either version
MCUploads == {Built(1, 1, 1, 1), Built(2, 2, 2, 2)}

Row(person, link, podcast, role, episode, date) ==
    [person |-> person, link |-> link, podcast |-> podcast, role |-> role,
     episode |-> episode, date |-> date, english |-> podcast # "X"]

Early == << Row("ann", None, "P", "host", 1, 1), Row("bob", None, "P", "guest", 1, 1),
            Row("bobby", None, "Q", "guest", 3, 2), Row("cat", None, "Q", "host", 3, 2),
            Row("eve", None, "X", "guest", 9, 1), Row("???", None, "P", "guest", 1, 1) >>
Later == << Row("ann", "ann", "P", "host", 1, 1), Row("bob", "bob", "P", "guest", 1, 1),
            Row("bobby", "bob", "Q", "guest", 3, 2), Row("cat", "cat", "Q", "host", 3, 2),
            Row("eve", "eve", "X", "guest", 9, 1), Row("bob", "bob", "P", "guest", 2, 3),
            Row("dan", "dan", "P", "guest", 2, NoDate), Row("dan", "dan", "Q", "guest", 4, 1),
            Row("fay", None, "Q", "guest", 4, 1) >>

Reordered(rows, places) == [i \in 1..Len(rows) |-> rows[places[i]]]

MCVersions ==
    LET episodes == [p \in {"P", "Q", "X"} |-> IF p = "P" THEN 6 ELSE 5]
    IN  << [rows |-> ToSet(Early), episodes |-> episodes, orders |-> {Early}],
           [rows |-> ToSet(Later), episodes |-> episodes,
            orders |-> {Later, Reordered(Later, <<8, 6, 3, 9, 2, 7, 1, 5, 4>>),
                       Reordered(Later, <<3, 7, 5, 4, 9, 8, 6, 2, 1>>)}] >>

MCSortedNames == << "???", "ann", "bob", "bobby", "cat", "dan", "eve", "fay" >>
MCNormal == [n \in ToSet(MCSortedNames) \cup {"Bob!", "zoe", "!"} |->
                CASE n = "Bob!" -> "bob" [] n \in {"???", "!"} -> NoWords [] OTHER -> n]

Ask(source, target, start, end) ==
    [source |-> source, target |-> target, window |-> [start |-> start, end |-> end]]

MCQuery ==
    {Ask("bob", "dan", NoDate, NoDate), Ask("bob", "dan", 1, 2), Ask("bob", "dan", 1, 1),
     Ask("ann", "cat", NoDate, NoDate), Ask("ann", "cat", 2, NoDate), Ask("cat", "ann", 2, 2),
     Ask("Bob!", "cat", NoDate, 2), Ask("ann", "bob", 2, 2), Ask("dan", "dan", 3, 3),
     Ask("eve", "bob", NoDate, NoDate), Ask("bob", "zoe", NoDate, NoDate),
     Ask("!", "ann", NoDate, NoDate), Ask("???", "cat", NoDate, NoDate)}

=============================================================================
