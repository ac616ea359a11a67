---------------------------- MODULE MCSerializer ----------------------------
(* Small instances of Serializer for TLC. *)
EXTENDS Serializer

\* What is packed before the tables moves them across the boundaries of blocks;
\* strings are empty, as long as fits into a cookie, and longer by one.
MCAround ==
    {<<<<<<"string", 0>>, <<"string", 3>>>>, <<Tab(1)>>>>,
     <<<<<<"string", 9>>, Nil, <<"boolean", 2>>>>,
       <<<<"string", 4>>, <<"userdata", 0>>, <<"userdata", 1>>>>>>,
     <<<<>>, <<<<"function", 0>>>>>>,
     <<<<<<"string", 9>>>>, <<<<"thread", 0>>>>>>}

MCKeys == {Num(3)}

=============================================================================
