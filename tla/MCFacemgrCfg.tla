---------------------------- MODULE MCFacemgrCfg ----------------------------
(* Small instances of FacemgrCfg for TLC: the sets a .cfg cannot write.   *)
EXTENDS FacemgrCfg, TLC

CONSTANTS r1, r2, o1, o2, o3, a1

MCRuleIds == {r1, r2}

MCOverlayIds == {o1, o2}

\* one overlay cell, for the runs that evaluate every query
MCOverlayIdsOne == {o1}

\* rule and overlay cells are interchangeable
MCSymmetry == Permutations(MCRuleIds) \cup Permutations(MCOverlayIds)

\* two interface names, the first being "lo"
MCIfNames == {1, 2}

\* NETDEVICE_TYPE_UNDEFINED and one other type
MCNetTypes == {0, 1}

\* an invalid port (0) and a valid one
MCPorts == {0, 6363}

\* set_overlay() arguments: nothing valid, a local end, a remote end
MCOverlayArgs == {<<Unset, 0, Unset, 0>>, <<a1, 6363, Unset, 0>>, <<Unset, 0, a1, 6363>>}

\* one set_overlay() argument tuple, for the runs that evaluate every query
MCOverlayArgsOne == {<<a1, 6363, Unset, 0>>}

\* one interface name, "lo"
MCIfNamesOne == {1}

\* the fields the clients write in the main run
MCFields == {"discovery"}

\* a fresh allocation reading as zero: is_ipv4 = false
MCUninitZero == {Unset}

\* any byte pattern of a fresh allocation
MCUninitAny == {Unset, TRUE, FALSE}

=============================================================================
