------------------------------ MODULE MCPolicy ------------------------------
(***************************************************************************)
(* Two scopes over one org, three commands in all their spellings, the floor *)
(* of every deployment, and every row of at most one rule, of which some     *)
(* cannot be read.                                                          *)
(***************************************************************************)
EXTENDS PolicyTexts

rm == <<"r", "m">>
ls == <<"l", "s">>
mkfs == <<"m", "k", "f", "s">>
MCBases == {<<rm, <<"-", "r">>>>, <<mkfs>>, <<ls>>}
MCNested == {<<mkfs>>}
MCShell == <<<<"/", "s", "h">>, <<"-", "l", "c">>>>
MCInterpreters == {<<"s", "h">>}
MCLongFlags == {}
MCCommands == UNION {Spellings(b) : b \in MCBases} \cup UNION {HandedOver(b) : b \in MCNested}

MCFloor == DefaultOrgPolicy
MCRules ==
    {Unreadable} \cup [pattern : {Matching(LAMBDA text : Mentions(text, w)) : w \in {rm, ls}},
                       decision : Decisions]
MCExtensions ==
    {ParseCommandPolicy(row) :
        row \in [mode : Modes \cup {"typo"}, rules : {<<>>} \cup {<<r>> : r \in MCRules}]}
=============================================================================
