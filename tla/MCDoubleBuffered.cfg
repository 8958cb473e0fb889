CONSTANTS
  Reader = {r1, r2}
  Publisher = publisher
  NoOne = nobody
  NoBlob = noblob
  MaxPublished = 4
SPECIFICATION CellSpec
PROPERTIES
  ImplementsTeardownBlob
