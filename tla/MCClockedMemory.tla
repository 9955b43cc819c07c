--------------------------- MODULE MCClockedMemory ---------------------------
EXTENDS ClockedMemory

Read == [address |-> Good, write |-> FALSE, value |-> 0]
Lost == [address |-> Bad, write |-> FALSE, value |-> 0]
Store == [address |-> Good, write |-> TRUE, value |-> 1]

MCAnswers ==
    {[command |-> [ch \in Channels |-> IF ch = "data" THEN d ELSE i],
      event |-> e, next |-> n, passes |-> TRUE] :
        i \in {None, Lost}, d \in {None, Read, Store}, e \in {"none", "stop"}, n \in States}
    \union {[command |-> [ch \in Channels |-> None], event |-> "go", next |-> n, passes |-> TRUE] :
               n \in States}
MCConfigs ==
    {[latency |-> [ch \in Channels |-> IF ch = "data" THEN d ELSE i], resets |-> r] :
        i \in {<<0, 2>>}, d \in {<<0>>, <<2>>}, r \in {{}, {2}}}
=============================================================================
