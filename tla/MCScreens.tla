----------------------------- MODULE MCScreens -----------------------------
EXTENDS Screens

CONSTANTS c1, c2, k1, k2, f1, f2, f3, a1, a2, a3, s1, s2, p1, p2, i1, i2, l1, l2, u1, u2, v1, v2,
          t1, t2

ViewBound(messages, switches, troubles, texts, frozen) ==
    [messages |-> messages, switches |-> switches, troubles |-> troubles,
     texts |-> texts, frozen |-> frozen]
MCBudgets ==
    {ViewBound(3, 0, 1, 0, {}), ViewBound(2, 1, 0, 0, {}), ViewBound(2, 0, 1, 1, {}), ViewBound(2, 0, 0, 2, {}),
     ViewBound(1, 1, 1, 1, {}), ViewBound(1, 1, 1, 1, {First})}

TypingBound(keys, switches, troubles) ==
    [keys |-> keys, switches |-> switches, troubles |-> troubles]
MCTypingBounds ==
    {TypingBound(3, 0, 0), TypingBound(2, 2, 0), TypingBound(2, 1, 1),
     TypingBound(1, 2, 1), TypingBound(1, 1, 2)}

DeskBound(clicks, orders, reloads, troubles) ==
    [clicks |-> clicks, orders |-> orders, reloads |-> reloads, troubles |-> troubles]
MCDeskBounds == {DeskBound(2, 1, 0, 0), DeskBound(1, 1, 1, 1), DeskBound(1, 2, 0, 1)}

LinesBound(transfers, instants) == [transfers |-> transfers, instants |-> instants]
MCStatementBounds == {LinesBound(4, 5), LinesBound(2, 4), LinesBound(1, 3)}
OverviewBound(opened, selections, failures, transfers) ==
    [opened |-> opened, selections |-> selections, failures |-> failures,
     transfers |-> transfers]
MCAnalyticsBounds ==
    {OverviewBound(FALSE, 0, 0, 4), OverviewBound(TRUE, 0, 0, 2), OverviewBound(TRUE, 1, 1, 1)}

MCCardBounds == {[clicks |-> 4, troubles |-> 1]}

PageBound(onPanel, inForm, transfers, troubles) ==
    [panel |-> onPanel, form |-> inForm, transfers |-> transfers, troubles |-> troubles]
MCPageBounds ==
    {PageBound(4, 1, 0, 0), PageBound(2, 2, 1, 0), PageBound(2, 1, 2, 1), PageBound(3, 0, 0, 1)}

StaffBound(moves, changes, searches, troubles, actors) ==
    [moves |-> moves, changes |-> changes, searches |-> searches, troubles |-> troubles,
     actors |-> actors]
MCStaffBounds ==
    {StaffBound(5, 0, 0, 0, {"director"}), StaffBound(4, 1, 0, 0, {"director"}),
     StaffBound(3, 1, 0, 1, {"advisor", "director"}), StaffBound(4, 1, 0, 0, {"advisor"}),
     StaffBound(1, 0, 2, 1, {"advisor"}), StaffBound(1, 1, 1, 0, {"director"}),
     StaffBound(2, 1, 1, 0, {"director"}), StaffBound(2, 2, 0, 1, {"director"})}

FactorBound(setups, gestures, troubles) ==
    [setups |-> setups, gestures |-> gestures, troubles |-> troubles]
MCFactorBounds == {FactorBound(2, 1, 1), FactorBound(2, 2, 0), FactorBound(1, 2, 1)}

MCQuoteBounds == {[instants |-> 7, requests |-> 3]}

TabBound(clicks, logins, changes, troubles) ==
    [clicks |-> clicks, logins |-> logins, changes |-> changes, troubles |-> troubles]
MCSessionBounds ==
    {TabBound(1, 1, 0, 1), TabBound(2, 1, 0, 0), TabBound(1, 1, 1, 0), TabBound(0, 1, 1, 1),
     TabBound(1, 0, 2, 0), TabBound(0, 1, 3, 0)}

HomeBound(selections, gestures, transfers, troubles) ==
    [selections |-> selections, gestures |-> gestures, transfers |-> transfers,
     troubles |-> troubles]
MCHomeBounds ==
    {HomeBound(2, 2, 1, 0), HomeBound(1, 2, 1, 1), HomeBound(0, 3, 2, 1),
     HomeBound(0, 2, 2, 2), HomeBound(1, 3, 1, 0)}
MCPurseList == <<a1, a2, a3>>
=============================================================================
