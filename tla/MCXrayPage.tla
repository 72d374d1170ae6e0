----------------------------- MODULE MCXrayPage -----------------------------
(* The Xray page over a stored configuration that has a balancer with a rule. *)
EXTENDS XrayPage

MCStored ==
  syncObservatories(
    [DefaultTemplate EXCEPT
       !.outbounds = Append(@, Outbound("a", "vless")) \o <<Outbound("nord-a", "wireguard")>>,
       !.rules = <<Rule("blocked", NoTag, {<<"ip", TRUE>>}), Rule(NoTag, "bal", {<<"domain", TRUE>>})>>,
       !.balancers = <<[tag |-> "bal", strategy |-> "random", selector |-> {"a"}, settings |-> FALSE]>>,
       !.dns = [on |-> TRUE, hosts |-> {"host"}, servers |-> <<[address |-> "dns", plain |-> FALSE, set |-> {"expectIPs"}]>>, edition |-> 0],
       !.fakedns = <<0>>])
MCWorkers == [m \in {"tcp", "http"} |-> IF m = "tcp" THEN 2 ELSE 1]
=============================================================================
