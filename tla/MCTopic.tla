------------------------------ MODULE MCTopic ------------------------------
EXTENDS Topic

CONSTANTS ann, ben, text, pic, voice

MCAuthor == [p \in Posts |-> IF p = pic THEN ben ELSE ann]
MCKind == [p \in Posts |-> IF p = text THEN "text"
                           ELSE IF p = pic THEN "placed" ELSE "inline"]
=============================================================================
