---------------------------- MODULE MCFeedLogin ----------------------------
(* Two slots and one caller of another kind; the scenarios of the runs. *)
EXTENDS FeedLogin

Of(kinds, n, codes) == [faults |-> kinds, budget |-> n, codes |-> codes]

Handled ==
    {Of({"expire", "rest"}, 3, {807, 808}),
     Of({"minter", "forced"}, 2, {807, 808}),
     Of({"minter", "rest"}, 3, {808}),
     Of({"minter", "drop"}, 3, {808}),
     Of({"lock", "minter"}, 2, {808}),
     Of({"account", "rest"}, 2, {808})}

Replaced == {Of({"forced"}, 2, {808})}
=============================================================================
