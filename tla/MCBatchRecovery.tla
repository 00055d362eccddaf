--------------------------- MODULE MCBatchRecovery ---------------------------
EXTENDS BatchExecution

AnyAndHonest == {"any", "honest"}

\* Anything may happen to any batch.
AnyAnswer == [S \in SUBSET Items |-> Replies]

\* Two corrupt items, and a device with room for two items at a time.
Corrupt == {2, 5}
Room == 2
HonestAnswer ==
    [S \in SUBSET Items |->
        IF Cardinality(S) > Room THEN {"oom"}
        ELSE IF S \cap Corrupt # {} THEN {"bad_input"}
        ELSE {"payloads"}]

AnyAndHonestAnswers ==
    [a \in AnyAndHonest |-> IF a = "any" THEN AnyAnswer ELSE HonestAnswer]

\* Both adapters isolate, and the retries shrink a batch to its room.
HalvedLimits == [k \in 0 .. MaxOomRetries |-> N \div 2 ^ k]
ASSUME (\A a \in Adapters : Isolates(a, Room)) /\ ShrinksTo(Room, HalvedLimits)

\* Adapters with a native batch call, one of them with large items, and one without.
Native == Capability(TRUE, 0)
Large == Capability(TRUE, 3)
Single == Capability(FALSE, 0)

\* Files that fit into one request, also in chunks by the device's memory and one by
\* one; files that fill the requests by their bytes; images that fill them by their
\* pixels, the second of which fits into none.
Document(bytes) == [image |-> FALSE, bytes |-> bytes, pixels |-> 0]
Image(pixels) == [image |-> TRUE, bytes |-> 1, pixels |-> pixels]
Small == [k \in 1 .. N |-> Document(1)]

FilePlans ==
    {PlanOf(Small, Native), PlanOf(Small, Large), PlanOf(Small, Single),
     PlanOf([k \in 1 .. N |-> Document(IF k \in {1, 4} THEN 3 ELSE 2)], Native),
     PlanOf([k \in 1 .. N |-> Image(IF k = 2 THEN 9 ELSE 4)], Native)}
=============================================================================
