------------------------------- MODULE MCLabs -------------------------------
EXTENDS Labs

MCScenarios ==
    {[duration |-> 7, incidentStart |-> 1, incidentEnd |-> 6, autoScaleAt |-> 5,
      availableAfter |-> [scale |-> 1, cache |-> 3, rollback |-> 4]]}

MCRecordings ==
    {<<[step |-> 2, kind |-> "command"], [step |-> 1, kind |-> "narration"],
       [step |-> 2, kind |-> "output"], [step |-> 2, kind |-> "detection"],
       [step |-> 3, kind |-> "narration"], [step |-> 3, kind |-> "output"]>>,
     <<[step |-> -1, kind |-> "narration"], [step |-> -1, kind |-> "command"],
       [step |-> 1, kind |-> "output"]>>}

MCStudies == <<[recorded |-> 0, steps |-> <<"command", "narration">>],
               [recorded |-> 3400, steps |-> <<"narration">>]>>

MCQuickReads == {<<"inspect", "pods">>, <<"help">>}
MCTyped == {<<"scale", "web", "3">>, <<"clear">>}

MCLayerOf ==
    [host |-> "compute", proxy |-> "network", shop |-> "apps", cart |-> "apps"]
MCWirings ==
    {<<a, b, <<"cart", "proxy">>, <<"cart", "shop">>>> :
        a, b \in {<<"proxy", "shop">>, <<"shop", "proxy">>, <<"host", "proxy">>}}
MCSearches == {{"host", "proxy", "shop", "cart"}, {"proxy", "shop"}, {}}
=============================================================================
