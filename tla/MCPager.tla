------------------------------ MODULE MCPager ------------------------------
\* Bounds for checking Pager: stores opened with 3 or 4 pages that can grow to
\* 6, clients that write a node header (-1), a value that looks like a link to
\* a page (2) or one that looks like the end of the list (0).
EXTENDS Pager

MCInitialPages == {3, 4}
MCWords == {-1, 0, 2}

=============================================================================
