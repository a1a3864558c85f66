SPECIFICATION Spec
CONSTANTS
    ann = ann
    ben = ben
    pic = pic
    voice = voice
    text = text
    Users = {ann, ben}
    Posts = {text, pic, voice}
    Author <- MCAuthor
    Kind <- MCKind
    Limit = 4
INVARIANTS TypeOK  CountHonest 
PROPERTIES ImplementsTable
CHECK_DEADLOCK FALSE
