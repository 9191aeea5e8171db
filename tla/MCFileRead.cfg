CONSTANTS
  BlockSize = 2
  ChunkSize = 4
  IndexSize = 1
  Files <- AllFiles
  ImageLens = {4, 5, 8, 9, 12}
  BlobLens = {0, 3, 6}
  MaxSize = 10
SPECIFICATION Spec
INVARIANT TypeOK
INVARIANT ReadExact
 
