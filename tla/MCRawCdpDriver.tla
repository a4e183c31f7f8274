--------------------------- MODULE MCRawCdpDriver ---------------------------
EXTENDS RawCdpDriver

(* Both domains announce a download, one of them reports how it ends.     *)
MCEvent ==
    {e \in EngineEvent : e.method # "Page.downloadProgress"}

Command(configures, session, saves, tolerated) ==
    [kind |-> "command", configures |-> configures, session |-> session, saves |-> saves,
     tolerated |-> tolerated]
Wait(method, saves, tolerated) ==
    [kind |-> "wait", want |-> Every(method), saves |-> saves, tolerated |-> tolerated]

CONSTANT k1

MCSteps ==
    {Command(k1, "browser", FALSE, FALSE), Command("none", "child", TRUE, TRUE),
     Wait("Browser.downloadWillBegin", FALSE, TRUE), Wait("Browser.downloadProgress", FALSE, FALSE),
     Wait("Target.attachedToTarget", TRUE, TRUE)}
=============================================================================
