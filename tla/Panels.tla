------------------------------- MODULE Panels -------------------------------
(***************************************************************************)
(* Parts of the window whose state no other part reads: the topic tree,    *)
(* the alert banner and the publish form.  As they do not interact, a      *)
(* behaviour follows the user in one of them.                              *)
(***************************************************************************)
EXTENDS BrowseTree, Banner, PublishForm

VARIABLE panel   \* the one the behaviour is about

vars == <<panel, treeVars, bannerVars, formVars>>

Init == panel \in {"tree", "banner", "form"} /\ TreeInit /\ BannerInit /\ FormInit

InTree(A) == panel = "tree" /\ A /\ UNCHANGED <<panel, bannerVars, formVars>>

Next ==
    \/ InTree(TreeNext)
    \/ panel = "banner" /\ BannerNext /\ UNCHANGED <<panel, treeVars, formVars>>
    \/ panel = "form" /\ FormNext /\ UNCHANGED <<panel, treeVars, bannerVars>>

Spec == Init /\ [][Next]_vars

(* A frame that was asked for is drawn, and time passes however much the    *)
(* user clicks.  No sample, no key stroke and no idle frame has to come.    *)
FairSpec == Spec /\ WF_vars(InTree(Due /\ Redraw)) /\ SF_vars(InTree(TreeTick))

-----------------------------------------------------------------------------
(* The types of all three.                                                  *)
TypeOK == TreeTypeOK /\ BannerTypeOK /\ FormTypeOK

(* Whatever the user types and clicks in the tree, and also when no more    *)
(* samples come, its picture is right again and again.                      *)
PictureCatchesUp == panel = "tree" => []<>Picture
=============================================================================
