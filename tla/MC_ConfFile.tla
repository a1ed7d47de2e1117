----------------------------- MODULE MC_ConfFile -----------------------------
EXTENDS ConfFile

\* Every file of up to four bytes over the bytes the parser tells apart,
\* and longer files for the line limit, "\r\n" and case-blind lookup.
MCBytes == {"a", " ", "=", "#", CR, LF, NUL}

MCFiles == BoundedSeq(MCBytes, 4) \cup
           {<<"a", "a", "a", "a", "a", LF, "a", "=", "a">>,
            <<"a", "=", LF, "a", "a", "a", "a", "a">>,
            <<"a", "a", "a", CR, LF, "a", "=">>,
            <<"A", "=", "a", LF, "a", "=", "b">>,
            <<"a", "=", "b", LF, "#", LF, CR, LF, LF>>}

\* Files with a line "=v".
MCNoNameFiles == {<<"=", "a">>, <<"a", "=", LF, " ", "=", "a">>}
=============================================================================
