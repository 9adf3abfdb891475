SPECIFICATION Spec
CONSTANTS
    c1 = c1
    c2 = c2
    NoClient = NoClient
    Client = {c1, c2}
    Mortal = {c1}
    Listening = {c1}
    Repertoire <- MCRepertoire
    MaxSent <- MCMaxSent
    Room = 2
    HeaderSize = 1
    SimpleLen <- MCSimpleLen
    RawLen <- MCRawLen
CHECK_DEADLOCK FALSE
INVARIANTS PacketsWhole BatchLives AnsweredOnce EventBeforeAnswer 
  
