------------------------ MODULE MCMessageDelivery ------------------------
EXTENDS MessageDelivery

CONSTANTS ann, ben, hi, pic, re     \* two ends; a text and an attachment of ann, a text of ben

MCAuthor == [m \in Messages |-> IF m = re THEN ben ELSE ann]
=============================================================================
