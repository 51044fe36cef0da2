----------------------------- MODULE Pagination -----------------------------
(***************************************************************************)
(* The pager under the list of issues and under the list of events: the    *)
(* same code twice (views/issues.js, views/explore.js).                    *)
(***************************************************************************)
EXTENDS Integers

MaxVisible == 5

Least(a, b) == IF a <= b THEN a ELSE b
Most(a, b) == IF a >= b THEN a ELSE b

\* Math.ceil(n / limit) || 1
TotalPages(n, limit) == IF n = 0 THEN 1 ELSE (n - 1) \div limit + 1

\* A page that no longer exists becomes the last one.
Clamped(page, pages) == Least(page, pages)

\* The run of numbered buttons: two before the current page if they exist.
FirstGuess(cur) == Most(1, cur - 2)
EndPage(cur, pages) == Least(pages, FirstGuess(cur) + MaxVisible - 1)
StartPage(cur, pages) ==
    IF EndPage(cur, pages) - FirstGuess(cur) < MaxVisible - 1
    THEN Most(1, EndPage(cur, pages) - MaxVisible + 1)
    ELSE FirstGuess(cur)
Window(cur, pages) == StartPage(cur, pages)..EndPage(cur, pages)

\* Every page a button leads to: Prev, 1, the run, the last page, Next.
Buttons(cur, pages) ==
    Window(cur, pages)
        \cup (IF cur # 1 THEN {cur - 1} ELSE {})
        \cup (IF cur # pages THEN {cur + 1} ELSE {})
        \cup (IF StartPage(cur, pages) > 1 THEN {1} ELSE {})
        \cup (IF EndPage(cur, pages) < pages THEN {pages} ELSE {})
=============================================================================
